---- MODULE Spec2Model ----
(***************************************************************************)
(* A model of the finance dashboard: the budget aggregation engine         *)
(* (utils/advisor.ts, utils/currency.ts), the document store               *)
(* (store/index.ts), the live exchange-rate fetch (utils/exchangeRate.ts), *)
(* the application shell (App.tsx, pages/Settings.tsx) and the bank-import *)
(* wizard (utils/pkoImport.ts, pages/BankImport.tsx).                      *)
(*                                                                         *)
(* Numbers are exact: money amounts and rates are integers chosen so that  *)
(* every division the code performs is exact.  Strings that the code       *)
(* inspects character by character are sequences of one-character strings. *)
(***************************************************************************)
EXTENDS Integers, Sequences, FiniteSets, TLC

VARIABLES
    \* ---- budget aggregation engine (utils/advisor.ts) ----
    transactions,        \* the Transaction[] handed to the aggregator
    tzWest,              \* the host's time zone lies west of UTC (a negative offset)
    call,                \* the last call of the engine: the function and its arguments
    breakdown,           \* the result of the last call, if of getMonthlyBreakdown
    expensesByCategory,  \* the result of the last call, if of getExpensesByCategory
    advice,              \* the result of the last call of getSavingsAdvice, if any
    \* ---- document store and application shell (store/index.ts, App.tsx) ----
    data,                \* App's state: the document in memory
    storage,             \* localStorage['finance-dashboard-data']
    nextId,              \* how many identifiers uuidv4() has handed out, plus one
    imported,            \* what the last importData call returned: "null" or "document"
    importError,         \* Settings page: the import error shown
    importSuccess,       \* Settings page: the import is reported as successful
    \* ---- live exchange rate (utils/exchangeRate.ts, App.tsx, pages/Settings.tsx) ----
    cache,               \* localStorage['finance-dashboard-live-rate']
    now,                 \* Date.now()
    ticks,               \* how many times the clock has moved
    fetch,               \* per caller, the state of its call of fetchLiveRate
    mounted,             \* App's mount effect has run
    fetchingRate,        \* Settings page: a refresh is running
    formRate,            \* Settings page: the exchange-rate field of the form
    formAuto,            \* Settings page: the automatic-rate toggle of the form
    \* ---- import wizard (pages/BankImport.tsx) ----
    step,                \* the step of the wizard shown: 1, 2 or 3
    parseResult,         \* the ParseResult under review, if any
    fileName,            \* the name of the file chosen
    parseError,          \* the error shown under the drop zone
    mappingUI,           \* the five selects of the mapping step
    categoryOverrides,   \* the category chosen for each row
    selected,            \* the rows selected for import (0-based)
    importedCount,       \* how many rows the last import added
    reading,             \* the FileReader at work, with the text it will deliver
    csvText,             \* the text of the file the parse result came from
    \* ---- the importer's functions called on their own (utils/pkoImport.ts) ----
    parsing              \* the last call: the function, its arguments and its result

advisorVars == <<transactions, tzWest, call, breakdown, expensesByCategory, advice>>

storeVars == <<data, storage, nextId, imported, importError, importSuccess>>

rateOnlyVars == <<cache, now, ticks, fetch, mounted, fetchingRate, formRate, formAuto>>

importOnlyVars == <<step, parseResult, fileName, parseError, mappingUI, categoryOverrides,
                    selected, importedCount, reading, csvText>>

vars == <<advisorVars, storeVars, rateOnlyVars, importOnlyVars, parsing>>

\* What an action of one component leaves alone.
notAdvisor == <<storeVars, rateOnlyVars, importOnlyVars, parsing>>
notStore == <<advisorVars, rateOnlyVars, importOnlyVars, parsing>>
notRate == <<advisorVars, nextId, imported, importError, importSuccess, importOnlyVars,
             parsing>>
notImport == <<advisorVars, rateOnlyVars, imported, importError, importSuccess, parsing>>
notParsing == <<advisorVars, storeVars, rateOnlyVars, importOnlyVars>>

\* ------------------------------------------------------------------------
\* Bounds
\* ------------------------------------------------------------------------
MaxTx == 2
MaxIds == 2
MaxTicks == 2
MaxLine == 5

\* ------------------------------------------------------------------------
\* Generic helpers
\* ------------------------------------------------------------------------
\* JavaScript's undefined, for an optional numeric field that is absent.
Undefined == -1

RECURSIVE SeqsUpTo(_, _)
SeqsUpTo(S, n) ==
    IF n = 0 THEN {<<>>}
    ELSE LET shorter == SeqsUpTo(S, n - 1)
         IN  shorter \cup {Append(s, x) : s \in {t \in shorter : Len(t) = n - 1}, x \in S}

\* ------------------------------------------------------------------------
\* types/index.ts
\* ------------------------------------------------------------------------
Currencies == {"USD", "PLN"}

INCOME_CATEGORIES == <<"Salary", "Freelance", "Investment", "Rental", "Gift", "Other Income">>

EXPENSE_CATEGORIES ==
    <<"Housing", "Transportation", "Food", "Utilities", "Healthcare", "Insurance",
      "Entertainment", "Shopping", "Education", "Personal", "Subscriptions",
      "Debt Payment", "Other">>

CATEGORY_COLORS ==
    [c \in {"Housing", "Transportation", "Food", "Utilities", "Healthcare", "Insurance",
            "Entertainment", "Shopping", "Education", "Personal", "Subscriptions",
            "Debt Payment", "Other", "Salary", "Freelance", "Investment", "Rental",
            "Gift", "Other Income"} |->
        CASE c = "Housing" -> "#6366f1"
          [] c = "Transportation" -> "#8b5cf6"
          [] c = "Food" -> "#ec4899"
          [] c = "Utilities" -> "#f59e0b"
          [] c = "Healthcare" -> "#ef4444"
          [] c = "Insurance" -> "#f97316"
          [] c = "Entertainment" -> "#10b981"
          [] c = "Shopping" -> "#14b8a6"
          [] c = "Education" -> "#3b82f6"
          [] c = "Personal" -> "#a855f7"
          [] c = "Subscriptions" -> "#06b6d4"
          [] c = "Debt Payment" -> "#dc2626"
          [] c = "Other" -> "#64748b"
          [] c = "Salary" -> "#10b981"
          [] c = "Freelance" -> "#34d399"
          [] c = "Investment" -> "#6366f1"
          [] c = "Rental" -> "#8b5cf6"
          [] c = "Gift" -> "#f59e0b"
          [] c = "Other Income" -> "#64748b"]

\* ------------------------------------------------------------------------
\* Dates.  A date string is kept as its calendar fields (month 1..12); a
\* string that new Date() cannot read is the record with valid = FALSE.
\* ------------------------------------------------------------------------
MkDate(y, m, d) == [valid |-> TRUE, y |-> y, m |-> m, d |-> d]
InvalidDate == [valid |-> FALSE, y |-> 0, m |-> 0, d |-> 0]

\* new Date("YYYY-MM-DD") is midnight UTC of that day; getMonth() and
\* getFullYear() read it in local time, which west of UTC is still the
\* evening of the day before.  NaN (no month) is modelled as -1.
DateGetMonth(date, west) ==
    IF ~date.valid THEN -1
    ELSE IF west /\ date.d = 1
         THEN (IF date.m = 1 THEN 11 ELSE date.m - 2)
         ELSE date.m - 1

DateGetFullYear(date, west) ==
    IF ~date.valid THEN -1
    ELSE IF west /\ date.d = 1 /\ date.m = 1 THEN date.y - 1 ELSE date.y

\* ------------------------------------------------------------------------
\* utils/currency.ts
\* ------------------------------------------------------------------------
convertCurrency(amount, from, to, exchangeRate) ==
    IF from = to THEN amount
    ELSE IF from = "USD" /\ to = "PLN" THEN amount * exchangeRate
    ELSE IF from = "PLN" /\ to = "USD" THEN amount \div exchangeRate
    ELSE amount

\* ------------------------------------------------------------------------
\* utils/advisor.ts
\* ------------------------------------------------------------------------
NEEDS == {"Housing", "Transportation", "Food", "Utilities", "Healthcare", "Insurance"}

WANTS == {"Entertainment", "Shopping", "Education", "Personal", "Subscriptions"}

\* t.exchangeRateAtTime ?? exchangeRate
RateFor_IgnoresStoredRate(t, exchangeRate) == exchangeRate

RateFor(t, exchangeRate) ==
    IF t.exchangeRateAtTime # Undefined THEN t.exchangeRateAtTime ELSE exchangeRate

\* The bucket an expense of the given category is added to (the if/else chain).
Bucket_DropsUncategorized(category) ==
    IF category = "Debt Payment" THEN "debtPayments"
    ELSE IF category \in NEEDS THEN "needs"
    ELSE IF category \in WANTS THEN "wants"
    ELSE "none"

Bucket(category) ==
    IF category = "Debt Payment" THEN "debtPayments"
    ELSE IF category \in NEEDS THEN "needs"
    ELSE IF category \in WANTS THEN "wants"
    ELSE "wants"

InMonth(t, month, year, west) ==
    DateGetMonth(t.date, west) = month /\ DateGetFullYear(t.date, west) = year

ZeroTotals == [totalIncome |-> 0, totalExpenses |-> 0, needs |-> 0, wants |-> 0, debtPayments |-> 0]

\* One iteration of the for loop over monthTransactions.
AddToTotals(acc, t, primaryCurrency, exchangeRate) ==
    LET rate == RateFor(t, exchangeRate)
        amount == convertCurrency(t.amount, t.currency, primaryCurrency, rate)
        b == Bucket(t.category)
    IN  IF t.type = "income"
        THEN [acc EXCEPT !.totalIncome = @ + amount]
        ELSE [acc EXCEPT !.totalExpenses = @ + amount,
                         !.debtPayments = IF b = "debtPayments" THEN @ + amount ELSE @,
                         !.needs = IF b = "needs" THEN @ + amount ELSE @,
                         !.wants = IF b = "wants" THEN @ + amount ELSE @]

RECURSIVE SumTotals(_, _, _, _)
SumTotals(acc, txs, primaryCurrency, exchangeRate) ==
    IF txs = <<>> THEN acc
    ELSE SumTotals(AddToTotals(acc, Head(txs), primaryCurrency, exchangeRate),
                   Tail(txs), primaryCurrency, exchangeRate)

getMonthlyBreakdown(txs, month, year, primaryCurrency, exchangeRate, west) ==
    LET monthTransactions == SelectSeq(txs, LAMBDA t : InMonth(t, month, year, west))
        s == SumTotals(ZeroTotals, monthTransactions, primaryCurrency, exchangeRate)
    IN  [totalIncome |-> s.totalIncome,
         totalExpenses |-> s.totalExpenses,
         needs |-> s.needs,
         wants |-> s.wants,
         savings |-> s.totalIncome - s.totalExpenses,
         debtPayments |-> s.debtPayments,
         netBalance |-> s.totalIncome - s.totalExpenses]

\* byCategory.set(t.category, (byCategory.get(t.category) || 0) + amount): the Map
\* is a sequence of entries in insertion order.
MapAdd(byCategory, category, amount) ==
    IF \E i \in 1..Len(byCategory) : byCategory[i].category = category
    THEN [i \in 1..Len(byCategory) |->
            IF byCategory[i].category = category
            THEN [byCategory[i] EXCEPT !.amount = @ + amount]
            ELSE byCategory[i]]
    ELSE Append(byCategory, [category |-> category, amount |-> amount])

RECURSIVE GroupByCategory(_, _, _, _)
GroupByCategory(byCategory, txs, primaryCurrency, exchangeRate) ==
    IF txs = <<>> THEN byCategory
    ELSE LET t == Head(txs)
             rate == RateFor(t, exchangeRate)
             amount == convertCurrency(t.amount, t.currency, primaryCurrency, rate)
         IN  GroupByCategory(MapAdd(byCategory, t.category, amount), Tail(txs),
                             primaryCurrency, exchangeRate)

\* A sort that puts an entry before those of the same amount already placed.
RECURSIVE InsertDesc_BeforeEquals(_, _)
InsertDesc_BeforeEquals(sorted, e) ==
    IF sorted = <<>> THEN <<e>>
    ELSE IF Head(sorted).amount > e.amount
         THEN <<Head(sorted)>> \o InsertDesc_BeforeEquals(Tail(sorted), e)
         ELSE <<e>> \o sorted

\* Array.prototype.sort((a, b) => b.amount - a.amount): a stable sort, descending.
RECURSIVE InsertDesc(_, _)
InsertDesc(sorted, e) ==
    IF sorted = <<>> THEN <<e>>
    ELSE IF Head(sorted).amount >= e.amount
         THEN <<Head(sorted)>> \o InsertDesc(Tail(sorted), e)
         ELSE <<e>> \o sorted

RECURSIVE SortDesc(_, _)
SortDesc(sorted, rest) ==
    IF rest = <<>> THEN sorted ELSE SortDesc(InsertDesc(sorted, Head(rest)), Tail(rest))

getExpensesByCategory(txs, month, year, primaryCurrency, exchangeRate, west) ==
    LET monthExpenses ==
            SelectSeq(txs, LAMBDA t : t.type = "expense" /\ InMonth(t, month, year, west))
        byCategory == GroupByCategory(<<>>, monthExpenses, primaryCurrency, exchangeRate)
        entries == [i \in 1..Len(byCategory) |->
                      [category |-> byCategory[i].category,
                       amount |-> byCategory[i].amount,
                       color |-> IF byCategory[i].category \in DOMAIN CATEGORY_COLORS
                                 THEN CATEGORY_COLORS[byCategory[i].category]
                                 ELSE "#64748b"]]
    IN  SortDesc(<<>>, entries)

\* ------------------------------------------------------------------------
\* Inputs of the aggregation engine
\* ------------------------------------------------------------------------
Rates == {2, 4}
Months == {0, 1}
Years == {2025}

Tx(type, amount, currency, category, date, rate) ==
    [type |-> type, amount |-> amount, currency |-> currency, category |-> category,
     date |-> date, exchangeRateAtTime |-> rate]

\* Transactions of every kind the aggregator distinguishes: each bucket, both
\* currencies, with and without a stored rate, inside and outside the window,
\* on the first day of a month, and with a date that is no date.
TxPool ==
    {Tx("expense", 40, cr[1], c, MkDate(2025, 1, 15), cr[2]) :
        c \in {"Debt Payment", "Food", "Shopping", "Other"},
        cr \in {<<"USD", Undefined>>, <<"PLN", Undefined>>, <<"PLN", 2>>}}
    \cup {Tx("income", 100, cr[1], "Salary", MkDate(2025, 1, 15), cr[2]) :
        cr \in {<<"USD", Undefined>>, <<"PLN", Undefined>>, <<"PLN", 4>>}}
    \cup {Tx("expense", 100, "USD", "Food", MkDate(2025, 2, 1), Undefined),
          Tx("expense", 100, "PLN", "Housing", MkDate(2024, 1, 15), 4),
          Tx("expense", 40, "USD", "Food", InvalidDate, Undefined)}

\* ------------------------------------------------------------------------
\* getSavingsAdvice.  The fields of a breakdown are whole numbers; a quotient
\* of two of them is kept exactly, as a fraction n/d in lowest terms with d > 0.
\* ------------------------------------------------------------------------
RECURSIVE Gcd(_, _)
Gcd(a, b) == IF b = 0 THEN a ELSE Gcd(b, a % b)

Magnitude(k) == IF k < 0 THEN -k ELSE k

Ratio(n, d) ==
    [n |-> (IF d < 0 THEN -n ELSE n) \div Gcd(Magnitude(n), Magnitude(d)),
     d |-> Magnitude(d) \div Gcd(Magnitude(n), Magnitude(d))]

Whole(k) == [n |-> k, d |-> 1]

\* a / b, a * b, a - b, a < b, Math.max(a, b)
Quotient(a, b) == Ratio(a.n * b.d, a.d * b.n)
Product(a, b) == Ratio(a.n * b.n, a.d * b.d)
Difference(a, b) == Ratio(a.n * b.d - b.n * a.d, a.d * b.d)
Less(a, b) == a.n * b.d < b.n * a.d
MathMax(a, b) == IF Less(a, b) THEN b ELSE a

\* x.toFixed(digits), as the whole number of units of the last digit shown:
\* the nearest one, the one further from zero of two equally near.
ToFixed(x, digits) ==
    (IF x.n < 0 THEN -1 ELSE 1)
        * ((2 * Magnitude(x.n) * 10^digits + x.d) \div (2 * x.d))

\* (part / totalIncome) * 100
PercentOf(part, totalIncome) == Product(Quotient(Whole(part), Whole(totalIncome)), Whole(100))

\* A tip: its text, and the number shown in it if it shows one.
Tip(text, shown) == [text |-> text, shown |-> shown]

TrackIncomeTip == Tip("Start by tracking your income to get personalized advice.", 0)
ExcellentTip == Tip("You're saving 20%+ of your income. Keep it up!", 0)
NeedsAbove50Tip ==
    Tip("Your needs spending is above 50%. See if you can reduce housing or transportation costs.", 0)
GoodTip(savingsPercent) ==
    Tip("You're saving ${savingsPercent.toFixed(1)}%. Try to reach 20% for optimal financial health.",
        ToFixed(savingsPercent, 1))
CutWantsTip == Tip("Consider cutting back on wants - entertainment, shopping, or subscriptions.", 0)
FairTip == Tip("You're breaking even or barely saving. Look for areas to cut expenses.", 0)
NeedsAbove60Tip ==
    Tip("Your essential expenses are high. Consider cheaper alternatives for housing or transport.", 0)
ReduceWantsTip == Tip("Reduce discretionary spending to boost your savings rate.", 0)
OverspendingTip == Tip("You're spending more than you earn. This needs immediate attention.", 0)
PrioritizeTip == Tip("Prioritize cutting non-essential expenses first.", 0)
CutWantsByTip(wantsPercent, totalIncome) ==
    Tip("Cut wants spending by ${((wantsPercent - 20) * totalIncome / 100).toFixed(0)} to start saving.",
        ToFixed(Quotient(Product(Difference(wantsPercent, Whole(20)), Whole(totalIncome)),
                         Whole(100)), 0))

Optional(condition, tip) == IF condition THEN <<tip>> ELSE <<>>

SavingsAdvice(optimalRate, optimalAmount, needsPercent, wantsPercent, savingsPercent, status, tips) ==
    [optimalSavingsRate |-> optimalRate,
     optimalSavingsAmount |-> optimalAmount,
     currentSavingsRate |-> savingsPercent,
     needsPercent |-> needsPercent,
     wantsPercent |-> wantsPercent,
     savingsPercent |-> savingsPercent,
     status |-> status,
     tips |-> tips]

\* The if/else chain over savingsPercent: the status.
StatusOf_GoodFromFive(savingsPercent) ==
    IF ~Less(savingsPercent, Whole(20)) THEN "excellent"
    ELSE IF ~Less(savingsPercent, Whole(5)) THEN "good"
    ELSE IF ~Less(savingsPercent, Whole(0)) THEN "fair"
    ELSE "needs_attention"

StatusOf(savingsPercent) ==
    IF ~Less(savingsPercent, Whole(20)) THEN "excellent"
    ELSE IF ~Less(savingsPercent, Whole(10)) THEN "good"
    ELSE IF ~Less(savingsPercent, Whole(0)) THEN "fair"
    ELSE "needs_attention"

\* A chain that never computes the amount by which to cut wants.
TipsOf_NoCutWants(status, needsPercent, wantsPercent, savingsPercent, totalIncome) ==
    CASE status = "excellent" ->
            <<ExcellentTip>> \o Optional(Less(Whole(50), needsPercent), NeedsAbove50Tip)
      [] status = "good" ->
            <<GoodTip(savingsPercent)>> \o Optional(Less(Whole(30), wantsPercent), CutWantsTip)
      [] status = "fair" ->
            <<FairTip>> \o Optional(Less(Whole(60), needsPercent), NeedsAbove60Tip)
                        \o Optional(Less(Whole(30), wantsPercent), ReduceWantsTip)
      [] OTHER ->
            <<OverspendingTip, PrioritizeTip>>

\* The if/else chain over savingsPercent: the tips.
TipsOf(status, needsPercent, wantsPercent, savingsPercent, totalIncome) ==
    CASE status = "excellent" ->
            <<ExcellentTip>> \o Optional(Less(Whole(50), needsPercent), NeedsAbove50Tip)
      [] status = "good" ->
            <<GoodTip(savingsPercent)>> \o Optional(Less(Whole(30), wantsPercent), CutWantsTip)
      [] status = "fair" ->
            <<FairTip>> \o Optional(Less(Whole(60), needsPercent), NeedsAbove60Tip)
                        \o Optional(Less(Whole(30), wantsPercent), ReduceWantsTip)
      [] OTHER ->
            <<OverspendingTip, PrioritizeTip>>
                \o Optional(Less(Whole(20), wantsPercent), CutWantsByTip(wantsPercent, totalIncome))

OptimalRate_NoFloor(debtPayments, totalIncome) ==
    IF debtPayments > 0
    THEN Difference(Whole(20), PercentOf(debtPayments, totalIncome))
    ELSE Whole(20)

\* 50/30/20 rule as baseline, adjusted for debt
OptimalRate(debtPayments, totalIncome) ==
    IF debtPayments > 0
    THEN MathMax(Whole(10), Difference(Whole(20), PercentOf(debtPayments, totalIncome)))
    ELSE Whole(20)

ZeroIncomeAdvice_NoTip ==
    SavingsAdvice(Whole(20), Whole(0), Whole(0), Whole(0), Whole(0), "needs_attention", <<>>)

\* The result for totalIncome === 0.
ZeroIncomeAdvice ==
    SavingsAdvice(Whole(20), Whole(0), Whole(0), Whole(0), Whole(0), "needs_attention",
                  <<TrackIncomeTip>>)

AdviceFor(b, needsPercent, wantsPercent, savingsPercent, optimalRate) ==
    SavingsAdvice(optimalRate,
                  Quotient(Product(Whole(b.totalIncome), optimalRate), Whole(100)),
                  needsPercent, wantsPercent, savingsPercent,
                  StatusOf(savingsPercent),
                  TipsOf(StatusOf(savingsPercent), needsPercent, wantsPercent, savingsPercent,
                         b.totalIncome))

getSavingsAdvice(b) ==
    IF b.totalIncome = 0 THEN ZeroIncomeAdvice
    ELSE AdviceFor(b, PercentOf(b.needs, b.totalIncome), PercentOf(b.wants, b.totalIncome),
                   PercentOf(b.savings, b.totalIncome),
                   OptimalRate(b.debtPayments, b.totalIncome))

\* No advice asked for yet.
NoAdvice == [status |-> "none"]

\* Breakdowns on and around every threshold of the advice, with no income,
\* with income that makes the percents whole, and with income that does not.
Breakdowns ==
    {[totalIncome |-> i, totalExpenses |-> i - s, needs |-> n, wants |-> w,
      savings |-> s, debtPayments |-> d, netBalance |-> i - s] :
        i \in {0, 300, 1000, -1000},
        s \in {-1, 0, 99, 100, 199, 200, 250},
        n \in {0, 500, 501, 600, 601},
        w \in {0, 200, 201, 300, 301},
        d \in {-10, 0, 50, 100, 1000}}

NoCall == [fn |-> "none", month |-> 0, year |-> 0, primaryCurrency |-> "USD", exchangeRate |-> 0]

Call(fn, month, year, primaryCurrency, exchangeRate) ==
    [fn |-> fn, month |-> month, year |-> year,
     primaryCurrency |-> primaryCurrency, exchangeRate |-> exchangeRate]

NoBreakdown == [totalIncome |-> 0, totalExpenses |-> 0, needs |-> 0, wants |-> 0,
                savings |-> 0, debtPayments |-> 0, netBalance |-> 0]

AdvisorIdle ==
    /\ transactions = <<>>
    /\ tzWest = FALSE
    /\ call = NoCall
    /\ breakdown = NoBreakdown
    /\ expensesByCategory = <<>>
    /\ advice = NoAdvice

AdvisorInit ==
    /\ transactions \in SeqsUpTo(TxPool, MaxTx)
    /\ tzWest \in BOOLEAN
    /\ call = NoCall
    /\ breakdown = NoBreakdown
    /\ expensesByCategory = <<>>
    /\ advice = NoAdvice

CallGetMonthlyBreakdown ==
    \E month \in Months, year \in Years, pc \in Currencies, rate \in Rates :
        /\ call' = Call("getMonthlyBreakdown", month, year, pc, rate)
        /\ breakdown' = getMonthlyBreakdown(transactions, month, year, pc, rate, tzWest)
        /\ expensesByCategory' = <<>>
        /\ UNCHANGED <<transactions, tzWest, advice>>
        /\ UNCHANGED notAdvisor

CallGetExpensesByCategory ==
    \E month \in Months, year \in Years, pc \in Currencies, rate \in Rates :
        /\ call' = Call("getExpensesByCategory", month, year, pc, rate)
        /\ expensesByCategory' =
              getExpensesByCategory(transactions, month, year, pc, rate, tzWest)
        /\ breakdown' = NoBreakdown
        /\ UNCHANGED <<transactions, tzWest, advice>>
        /\ UNCHANGED notAdvisor

AdvisorNext ==
    \/ CallGetMonthlyBreakdown
    \/ CallGetExpensesByCategory

\* getSavingsAdvice applied to a breakdown.
AdviceInit ==
    /\ transactions = <<>>
    /\ tzWest = FALSE
    /\ call = NoCall
    /\ breakdown \in Breakdowns
    /\ expensesByCategory = <<>>
    /\ advice = NoAdvice

CallGetSavingsAdvice ==
    /\ advice' = getSavingsAdvice(breakdown)
    /\ UNCHANGED <<transactions, tzWest, call, breakdown, expensesByCategory>>
    /\ UNCHANGED notAdvisor

AdviceNext == CallGetSavingsAdvice


\* ------------------------------------------------------------------------
\* Properties of the aggregation engine
\* ------------------------------------------------------------------------
\* The amount a transaction contributes in the primary currency, as the
\* specification states it: its own rate when it carries one, else the fallback.
Contribution(t, primaryCurrency, fallback) ==
    LET r == IF t.exchangeRateAtTime = Undefined THEN fallback ELSE t.exchangeRateAtTime
    IN  IF t.currency = primaryCurrency THEN t.amount
        ELSE IF t.currency = "USD" THEN t.amount * r
        ELSE t.amount \div r

RECURSIVE SumWhere(_, _, _, _)
SumWhere(txs, P(_), primaryCurrency, fallback) ==
    IF txs = <<>> THEN 0
    ELSE (IF P(Head(txs)) THEN Contribution(Head(txs), primaryCurrency, fallback) ELSE 0)
         + SumWhere(Tail(txs), P, primaryCurrency, fallback)

InWindowExpense(t) ==
    /\ t.type = "expense"
    /\ DateGetMonth(t.date, tzWest) = call.month
    /\ DateGetFullYear(t.date, tzWest) = call.year

InWindowIncome(t) ==
    /\ t.type = "income"
    /\ DateGetMonth(t.date, tzWest) = call.month
    /\ DateGetFullYear(t.date, tzWest) = call.year

SixNeeds == {"Housing", "Transportation", "Food", "Utilities", "Healthcare", "Insurance"}

\* C1: in every result of getMonthlyBreakdown, needs + wants + debtPayments equals
\* totalExpenses, because each in-window expense is added to exactly one bucket:
\* 'Debt Payment' to debtPayments, the six needs categories to needs, and every
\* other category, 'Other' included, to wants.
C1_BucketsPartitionExpenses ==
    call.fn = "getMonthlyBreakdown" =>
        /\ breakdown.needs + breakdown.wants + breakdown.debtPayments = breakdown.totalExpenses
        /\ breakdown.debtPayments =
              SumWhere(transactions,
                       LAMBDA t : InWindowExpense(t) /\ t.category = "Debt Payment",
                       call.primaryCurrency, call.exchangeRate)
        /\ breakdown.needs =
              SumWhere(transactions,
                       LAMBDA t : InWindowExpense(t) /\ t.category \in SixNeeds,
                       call.primaryCurrency, call.exchangeRate)
        /\ breakdown.wants =
              SumWhere(transactions,
                       LAMBDA t : InWindowExpense(t) /\ t.category # "Debt Payment"
                                  /\ t.category \notin SixNeeds,
                       call.primaryCurrency, call.exchangeRate)

\* An 'Other' expense and a needs expense were both aggregated.
C1_Witness ==
    /\ call.fn = "getMonthlyBreakdown"
    /\ \E i \in 1..Len(transactions) :
          InWindowExpense(transactions[i]) /\ transactions[i].category = "Other"
    /\ breakdown.wants > 0
    /\ breakdown.needs > 0

AllInWindowCarryRate ==
    \A i \in 1..Len(transactions) :
        (InWindowExpense(transactions[i]) \/ InWindowIncome(transactions[i]))
            => transactions[i].exchangeRateAtTime # Undefined

RECURSIVE SumAmounts(_)
SumAmounts(entries) ==
    IF entries = <<>> THEN 0 ELSE Head(entries).amount + SumAmounts(Tail(entries))

\* C2: each in-window transaction contributes its amount converted at its own
\* exchangeRateAtTime when it carries one and at the fallback rate otherwise, in
\* getMonthlyBreakdown and in getExpensesByCategory; so when every in-window
\* transaction carries a rate the result is the same for every fallback rate.
C2_PerTransactionRate ==
    /\ call.fn = "getMonthlyBreakdown" =>
        /\ breakdown.totalIncome =
              SumWhere(transactions, InWindowIncome, call.primaryCurrency, call.exchangeRate)
        /\ breakdown.totalExpenses =
              SumWhere(transactions, InWindowExpense, call.primaryCurrency, call.exchangeRate)
        /\ AllInWindowCarryRate =>
              \A fb \in Rates :
                  getMonthlyBreakdown(transactions, call.month, call.year,
                                      call.primaryCurrency, fb, tzWest) = breakdown
    /\ call.fn = "getExpensesByCategory" =>
        /\ \A i \in 1..Len(expensesByCategory) :
              expensesByCategory[i].amount =
                  SumWhere(transactions,
                           LAMBDA t : InWindowExpense(t)
                                      /\ t.category = expensesByCategory[i].category,
                           call.primaryCurrency, call.exchangeRate)
        /\ SumAmounts(expensesByCategory) =
              SumWhere(transactions, InWindowExpense, call.primaryCurrency, call.exchangeRate)
        /\ AllInWindowCarryRate =>
              \A fb \in Rates :
                  getExpensesByCategory(transactions, call.month, call.year,
                                        call.primaryCurrency, fb, tzWest) = expensesByCategory

\* A PLN expense carrying the rate 2 was converted to USD with the fallback 4.
C2_Witness ==
    /\ call.fn = "getMonthlyBreakdown"
    /\ call.primaryCurrency = "USD"
    /\ call.exchangeRate = 4
    /\ Len(transactions) = 1
    /\ transactions[1].currency = "PLN"
    /\ transactions[1].exchangeRateAtTime = 2
    /\ InWindowExpense(transactions[1])
    /\ breakdown.totalExpenses = transactions[1].amount \div 2


\* Where the input first has an expense of the category inside the window.
FirstSeen(category) ==
    CHOOSE k \in 1..Len(transactions) :
        /\ InWindowExpense(transactions[k]) /\ transactions[k].category = category
        /\ \A j \in 1..(k - 1) :
              ~(InWindowExpense(transactions[j]) /\ transactions[j].category = category)

\* C26: getExpensesByCategory returns one entry for each category of the
\* expenses inside the window (income left out), its amount the sum of their
\* converted amounts, the entries by amount descending, those of equal amount
\* in the order in which their categories were first met in the input.
C26_OneEntryPerCategoryDescending ==
    call.fn = "getExpensesByCategory" =>
        /\ {expensesByCategory[i].category : i \in 1..Len(expensesByCategory)}
             = {transactions[k].category :
                   k \in {j \in 1..Len(transactions) : InWindowExpense(transactions[j])}}
        /\ \A i \in 1..Len(expensesByCategory), j \in 1..Len(expensesByCategory) :
              i < j =>
                  /\ expensesByCategory[i].category # expensesByCategory[j].category
                  /\ expensesByCategory[i].amount >= expensesByCategory[j].amount
                  /\ expensesByCategory[i].amount = expensesByCategory[j].amount =>
                        FirstSeen(expensesByCategory[i].category)
                            < FirstSeen(expensesByCategory[j].category)
        /\ \A i \in 1..Len(expensesByCategory) :
              expensesByCategory[i].amount =
                  SumWhere(transactions,
                           LAMBDA t : /\ InWindowExpense(t)
                                      /\ t.category = expensesByCategory[i].category,
                           call.primaryCurrency, call.exchangeRate)

\* Shopping and then Food, 40 each: the entries are of equal amount and stand
\* in that order.
C26_Witness ==
    /\ call.fn = "getExpensesByCategory"
    /\ Len(expensesByCategory) = 2
    /\ expensesByCategory[1].category = "Shopping"
    /\ expensesByCategory[2].category = "Food"
    /\ expensesByCategory[1].amount = expensesByCategory[2].amount
    /\ transactions[1].category = "Shopping"

\* Food of 20 and then Shopping of 40: the larger amount comes first.
C26_Reordered ==
    /\ call.fn = "getExpensesByCategory"
    /\ Len(expensesByCategory) = 2
    /\ expensesByCategory[1].category = "Shopping"
    /\ expensesByCategory[1].amount > expensesByCategory[2].amount
    /\ transactions[1].category = expensesByCategory[2].category

\* The date of a transaction lies in the calendar month (0-indexed) of the year.
InCalendarMonth(t, month, year) == t.date.valid /\ t.date.m - 1 = month /\ t.date.y = year

\* C18: the breakdown of a month is that of the transactions dated in that
\* calendar month and year alone, so transactions dated outside contribute to
\* no field; with no transaction dated inside all seven fields are 0; savings
\* and netBalance are both totalIncome - totalExpenses.
C18_OnlyTheCalendarMonthCounts ==
    call.fn = "getMonthlyBreakdown" =>
        /\ breakdown
             = getMonthlyBreakdown(
                   SelectSeq(transactions,
                             LAMBDA t : InCalendarMonth(t, call.month, call.year)),
                   call.month, call.year, call.primaryCurrency, call.exchangeRate, tzWest)
        /\ (\A i \in 1..Len(transactions) :
                ~InCalendarMonth(transactions[i], call.month, call.year))
              => breakdown = NoBreakdown
        /\ breakdown.savings = breakdown.totalIncome - breakdown.totalExpenses
        /\ breakdown.netBalance = breakdown.totalIncome - breakdown.totalExpenses

\* ------------------------------------------------------------------------
\* Properties of the savings advice
\* ------------------------------------------------------------------------
Advised == advice # NoAdvice

\* The fraction x is part / totalIncome * 100, unclamped.
IsPercentOf(x, part, totalIncome) == x.d > 0 /\ x.n * totalIncome = part * 100 * x.d

\* part / totalIncome * 100 >= k, for totalIncome other than zero.
PercentAtLeast(part, totalIncome, k) ==
    IF totalIncome > 0 THEN part * 100 >= k * totalIncome ELSE part * 100 <= k * totalIncome

\* C15: for a breakdown with totalIncome = 0, whatever its other fields, the
\* advice has status needs_attention, optimalSavingsRate 20, every percent and
\* optimalSavingsAmount 0, and exactly one tip, the one about tracking income.
C15_ZeroIncomeAdvice ==
    (Advised /\ breakdown.totalIncome = 0) =>
        /\ advice.status = "needs_attention"
        /\ advice.optimalSavingsRate = Whole(20)
        /\ advice.optimalSavingsAmount = Whole(0)
        /\ advice.currentSavingsRate = Whole(0)
        /\ advice.needsPercent = Whole(0)
        /\ advice.wantsPercent = Whole(0)
        /\ advice.savingsPercent = Whole(0)
        /\ Len(advice.tips) = 1
        /\ advice.tips[1].text = "Start by tracking your income to get personalized advice."

\* Advice was given for a breakdown without income but with needs, wants, debt
\* payments and negative savings.
C15_Witness ==
    /\ Advised
    /\ breakdown.totalIncome = 0
    /\ breakdown.needs > 0
    /\ breakdown.wants > 0
    /\ breakdown.debtPayments > 0
    /\ breakdown.savings < 0

\* C16: for a breakdown with totalIncome other than zero the status follows
\* from savingsPercent = savings / totalIncome * 100 alone: excellent exactly
\* from 20 up, good exactly from 10 to below 20, fair exactly from 0 to below
\* 10, needs_attention exactly below 0; the advice reports savingsPercent,
\* needsPercent and wantsPercent as they are, not clamped.
C16_StatusBySavingsPercent ==
    (Advised /\ breakdown.totalIncome # 0) =>
        /\ advice.status = "excellent"
             <=> PercentAtLeast(breakdown.savings, breakdown.totalIncome, 20)
        /\ advice.status = "good"
             <=> (/\ PercentAtLeast(breakdown.savings, breakdown.totalIncome, 10)
                  /\ ~PercentAtLeast(breakdown.savings, breakdown.totalIncome, 20))
        /\ advice.status = "fair"
             <=> (/\ PercentAtLeast(breakdown.savings, breakdown.totalIncome, 0)
                  /\ ~PercentAtLeast(breakdown.savings, breakdown.totalIncome, 10))
        /\ advice.status = "needs_attention"
             <=> ~PercentAtLeast(breakdown.savings, breakdown.totalIncome, 0)
        /\ advice.status \in {"excellent", "good", "fair", "needs_attention"}
        /\ IsPercentOf(advice.savingsPercent, breakdown.savings, breakdown.totalIncome)
        /\ IsPercentOf(advice.needsPercent, breakdown.needs, breakdown.totalIncome)
        /\ IsPercentOf(advice.wantsPercent, breakdown.wants, breakdown.totalIncome)

\* Advice was given for savings of exactly 10 percent of the income while
\* needs and wants are far above their thresholds: the status is good.
C16_Witness ==
    /\ Advised
    /\ breakdown.totalIncome > 0
    /\ breakdown.savings * 10 = breakdown.totalIncome
    /\ breakdown.needs * 100 > 60 * breakdown.totalIncome
    /\ breakdown.wants * 100 > 30 * breakdown.totalIncome
    /\ advice.status = "good"

\* C17: for a breakdown with totalIncome > 0, optimalSavingsRate is 20 when
\* debtPayments is not positive and the larger of 10 and
\* 20 - debtPayments / totalIncome * 100 when it is positive, so it lies
\* between 10 and 20; optimalSavingsAmount is totalIncome * optimalSavingsRate / 100.
C17_OptimalRate ==
    (Advised /\ breakdown.totalIncome > 0) =>
        /\ breakdown.debtPayments <= 0 => advice.optimalSavingsRate = Whole(20)
        /\ breakdown.debtPayments > 0 =>
              IF 20 * breakdown.totalIncome - 100 * breakdown.debtPayments
                    >= 10 * breakdown.totalIncome
              THEN advice.optimalSavingsRate.n * breakdown.totalIncome
                     = (20 * breakdown.totalIncome - 100 * breakdown.debtPayments)
                          * advice.optimalSavingsRate.d
              ELSE advice.optimalSavingsRate = Whole(10)
        /\ advice.optimalSavingsRate.d > 0
        /\ 10 * advice.optimalSavingsRate.d <= advice.optimalSavingsRate.n
        /\ advice.optimalSavingsRate.n <= 20 * advice.optimalSavingsRate.d
        /\ advice.optimalSavingsAmount.d > 0
        /\ advice.optimalSavingsAmount.n * 100 * advice.optimalSavingsRate.d
             = breakdown.totalIncome * advice.optimalSavingsRate.n
                  * advice.optimalSavingsAmount.d

\* Advice was given for debt payments larger than a tenth of the income: the
\* rate is held at 10.
C17_Witness ==
    /\ Advised
    /\ breakdown.totalIncome > 0
    /\ breakdown.debtPayments * 10 > breakdown.totalIncome
    /\ advice.optimalSavingsRate = Whole(10)
    /\ advice.optimalSavingsAmount = Whole(breakdown.totalIncome \div 10)

\* part / totalIncome * 100 > k, for totalIncome other than zero.
PercentAbove(part, totalIncome, k) ==
    IF totalIncome > 0 THEN part * 100 > k * totalIncome ELSE part * 100 < k * totalIncome

\* shown is the whole number nearest to n / d (d positive), the one further
\* from zero of two equally near.
NearestTo(shown, n, d) ==
    /\ 2 * Magnitude(shown * d - n) <= d
    /\ 2 * Magnitude(shown * d - n) = d => Magnitude(shown * d) > Magnitude(n)

Rounds(shown, n, d) == IF d < 0 THEN NearestTo(shown, -n, -d) ELSE NearestTo(shown, n, d)

TipTexts(tips) == [i \in 1..Len(tips) |-> tips[i].text]

\* The texts the claim gives for a status.
TextsFor(status, needs, wants, totalIncome) ==
    CASE status = "excellent" ->
            <<ExcellentTip.text>>
                \o (IF PercentAbove(needs, totalIncome, 50) THEN <<NeedsAbove50Tip.text>> ELSE <<>>)
      [] status = "good" ->
            <<GoodTip(Whole(0)).text>>
                \o (IF PercentAbove(wants, totalIncome, 30) THEN <<CutWantsTip.text>> ELSE <<>>)
      [] status = "fair" ->
            <<FairTip.text>>
                \o (IF PercentAbove(needs, totalIncome, 60) THEN <<NeedsAbove60Tip.text>> ELSE <<>>)
                \o (IF PercentAbove(wants, totalIncome, 30) THEN <<ReduceWantsTip.text>> ELSE <<>>)
      [] OTHER ->
            <<OverspendingTip.text, PrioritizeTip.text>>
                \o (IF PercentAbove(wants, totalIncome, 20)
                    THEN <<CutWantsByTip(Whole(0), 0).text>> ELSE <<>>)

\* C23: for totalIncome other than zero the tips follow from the breakdown:
\* excellent gives its base tip and the needs warning iff needsPercent > 50;
\* good its base tip and the wants warning iff wantsPercent > 30; fair its base
\* tip, the needs warning iff needsPercent > 60 and the wants warning iff
\* wantsPercent > 30; needs_attention two base tips and the cut-wants tip iff
\* wantsPercent > 20, showing (wantsPercent - 20) * totalIncome / 100.  The list
\* is never empty and another call with the same breakdown gives the same.
C23_TipsFollowFromBreakdown ==
    (Advised /\ breakdown.totalIncome # 0) =>
        /\ advice.tips # <<>>
        /\ TipTexts(advice.tips)
             = TextsFor(advice.status, breakdown.needs, breakdown.wants, breakdown.totalIncome)
        /\ advice.status = "good" =>
              Rounds(advice.tips[1].shown, breakdown.savings * 1000, breakdown.totalIncome)
        /\ (advice.status = "needs_attention" /\ Len(advice.tips) = 3) =>
              Rounds(advice.tips[3].shown, 5 * breakdown.wants - breakdown.totalIncome, 5)
        /\ getSavingsAdvice(breakdown) = advice

\* Spending exceeds an income of 1000 and wants are 301: the third tip says to
\* cut wants by 101.
C23_Witness ==
    /\ Advised
    /\ breakdown.totalIncome = 1000
    /\ breakdown.wants = 301
    /\ advice.status = "needs_attention"
    /\ Len(advice.tips) = 3
    /\ advice.tips[3].shown = 101


\* ========================================================================
\* JavaScript values.  Every value is a record of one shape: k is its kind,
\* n the number (or 1/0 for true/false), s the string, e the elements of an
\* array or the fields of an object, in insertion order.
\* ========================================================================
JsUndefined == [k |-> "undefined", n |-> 0, s |-> "", e |-> <<>>]
JsNull == [k |-> "null", n |-> 0, s |-> "", e |-> <<>>]
JsBool(b) == [k |-> "boolean", n |-> IF b THEN 1 ELSE 0, s |-> "", e |-> <<>>]
JsNum(n) == [k |-> "number", n |-> n, s |-> "", e |-> <<>>]
JsStr(s) == [k |-> "string", n |-> 0, s |-> s, e |-> <<>>]
JsArr(elems) == [k |-> "array", n |-> 0, s |-> "", e |-> elems]
JsObj(fields) == [k |-> "object", n |-> 0, s |-> "", e |-> fields]
Field(key, val) == [key |-> key, val |-> val]

IsArray(v) == v.k = "array"
IsObject(v) == v.k = "object"
IsNullish(v) == v.k \in {"undefined", "null"}

\* ToBoolean(v): what `if (v)`, `a && b` and `a || b` test.
Truthy(v) ==
    CASE v.k \in {"undefined", "null"} -> FALSE
      [] v.k = "boolean" -> v.n = 1
      [] v.k = "number" -> v.n # 0
      [] v.k = "string" -> v.s # ""
      [] OTHER -> TRUE

HasKey(v, key) == IsObject(v) /\ \E i \in 1..Len(v.e) : v.e[i].key = key

\* v.key, for a v that is neither null nor undefined (those throw a TypeError).
Get(v, key) ==
    IF HasKey(v, key)
    THEN v.e[CHOOSE i \in 1..Len(v.e) : v.e[i].key = key].val
    ELSE JsUndefined

\* { ...obj, [key]: val }: an existing key keeps its place, a new one is added last.
Put(obj, key, val) ==
    IF HasKey(obj, key)
    THEN JsObj([i \in 1..Len(obj.e) |->
                  IF obj.e[i].key = key THEN Field(key, val) ELSE obj.e[i]])
    ELSE JsObj(Append(obj.e, Field(key, val)))

\* { ...a, ...b } for an object a; spreading a b that is no object adds nothing.
RECURSIVE PutAll(_, _)
PutAll(a, fields) ==
    IF fields = <<>> THEN a
    ELSE PutAll(Put(a, Head(fields).key, Head(fields).val), Tail(fields))

Spread(a, b) == IF IsObject(b) THEN PutAll(a, b.e) ELSE a

\* JSON texts.  A text is either malformed or is the JSON of a value; the
\* value a text denotes is what JSON.parse returns for it.
MalformedText == [wellFormed |-> FALSE, value |-> JsNull]
TextOf(v) == [wellFormed |-> TRUE, value |-> v]

\* What survives JSON.stringify: an object key whose value is undefined is
\* left out, an undefined array element becomes null.
RECURSIVE ToJSON(_)
ToJSON(v) ==
    CASE v.k = "array" ->
            JsArr([i \in 1..Len(v.e) |->
                     IF v.e[i].k = "undefined" THEN JsNull ELSE ToJSON(v.e[i])])
      [] v.k = "object" ->
            LET kept == SelectSeq(v.e, LAMBDA f : f.val.k # "undefined")
            IN  JsObj([i \in 1..Len(kept) |-> Field(kept[i].key, ToJSON(kept[i].val))])
      [] OTHER -> v

JSONstringify(v) == TextOf(ToJSON(v))

\* localStorage: an item is absent or holds a text.
NoItem == [present |-> FALSE, text |-> MalformedText]
Item(text) == [present |-> TRUE, text |-> text]


\* ========================================================================
\* store/index.ts: the persisted document and its mutations
\* ========================================================================
\* Exchange rates held in a document are opaque numbers, kept in hundredths
\* (4.05 is 405).
DEFAULT_EXCHANGE_RATE == 405

DEFAULT_SETTINGS ==
    JsObj(<<Field("primaryCurrency", JsStr("USD")),
            Field("exchangeRate", JsNum(DEFAULT_EXCHANGE_RATE)),
            Field("autoExchangeRate", JsBool(TRUE)),
            Field("monthlyBudget", JsUndefined)>>)

DEFAULT_DATA ==
    JsObj(<<Field("transactions", JsArr(<<>>)),
            Field("debts", JsArr(<<>>)),
            Field("savingsGoals", JsArr(<<>>)),
            Field("settings", DEFAULT_SETTINGS)>>)

\* a || []
OrEmptyArray(v) == IF Truthy(v) THEN v ELSE JsArr(<<>>)

loadData(item) ==
    IF ~item.present \/ ~item.text.wellFormed \/ IsNullish(item.text.value)
    THEN DEFAULT_DATA
    ELSE LET parsed == item.text.value
         IN  JsObj(<<Field("transactions", OrEmptyArray(Get(parsed, "transactions"))),
                     Field("debts", OrEmptyArray(Get(parsed, "debts"))),
                     Field("savingsGoals", OrEmptyArray(Get(parsed, "savingsGoals"))),
                     Field("settings", Spread(DEFAULT_SETTINGS, Get(parsed, "settings")))>>)

\* What saveData(data) leaves in localStorage under STORAGE_KEY.
saveData(doc) == Item(JSONstringify(doc))

\* { ...data, [coll]: [...data[coll], { ...rec, id }] }
AddTo(doc, coll, rec, id) ==
    Put(doc, coll, JsArr(Append(Get(doc, coll).e, Put(rec, "id", JsStr(id)))))

\* { ...data, [coll]: data[coll].map((x) => (x.id === rec.id ? rec : x)) }
UpdateIn(doc, coll, rec) ==
    LET old == Get(doc, coll).e
    IN  Put(doc, coll,
            JsArr([i \in 1..Len(old) |->
                     IF Get(old[i], "id") = Get(rec, "id") THEN rec ELSE old[i]]))

\* { ...data, [coll]: data[coll].filter((x) => x.id !== id) }
DeleteFrom(doc, coll, id) ==
    Put(doc, coll, JsArr(SelectSeq(Get(doc, coll).e, LAMBDA x : Get(x, "id") # JsStr(id))))

addTransaction(doc, tx, id) == AddTo(doc, "transactions", tx, id)
updateTransaction(doc, tx) == UpdateIn(doc, "transactions", tx)
deleteTransaction(doc, id) == DeleteFrom(doc, "transactions", id)
addDebt(doc, debt, id) == AddTo(doc, "debts", debt, id)
updateDebt(doc, debt) == UpdateIn(doc, "debts", debt)
deleteDebt(doc, id) == DeleteFrom(doc, "debts", id)
addSavingsGoal(doc, goal, id) == AddTo(doc, "savingsGoals", goal, id)
updateSavingsGoal(doc, goal) == UpdateIn(doc, "savingsGoals", goal)
deleteSavingsGoal(doc, id) == DeleteFrom(doc, "savingsGoals", id)

\* A settings update that replaced the settings by the partial.
updateSettings_Replaces(doc, settings) ==
    Put(doc, "settings", Spread(JsObj(<<>>), settings))

\* { ...data, settings: { ...data.settings, ...settings } }
updateSettings(doc, settings) ==
    Put(doc, "settings", Spread(Spread(JsObj(<<>>), Get(doc, "settings")), settings))

ExportedValue_DropsDebts(doc) ==
    JsObj(SelectSeq(doc.e, LAMBDA f : f.key # "debts"))

\* The value JSON.stringify(data, null, 2) serializes.
ExportedValue(doc) == doc

exportData(doc) == JSONstringify(ExportedValue(doc))

\* if (parsed.transactions && parsed.settings)
ImportAccepts(parsed) ==
    Truthy(Get(parsed, "transactions")) /\ Truthy(Get(parsed, "settings"))

\* importData(json): the value returned (JsNull for null) and whether saveData
\* was called with it.  JSON.parse throws on a malformed text and the property
\* read throws on null; both land in the catch.
importData(json) ==
    IF ~json.wellFormed \/ IsNullish(json.value) THEN [result |-> JsNull, saved |-> FALSE]
    ELSE IF ImportAccepts(json.value) THEN [result |-> json.value, saved |-> TRUE]
    ELSE [result |-> JsNull, saved |-> FALSE]


\* ========================================================================
\* App.tsx and pages/Settings.tsx: the handlers that change the document
\* ========================================================================
\* uuidv4(): the n-th identifier handed out.
Uuid(n) == "id-" \o ToString(n)

NoError == ""
InvalidJsonError == "Invalid JSON file. Please select a valid export file."

\* ---- what the pages hand to the handlers ----
\* Transactions.handleSave: a USD income, and a PLN expense that carries its rate.
TxInputs ==
    {JsObj(<<Field("type", JsStr("income")), Field("amount", JsNum(5000)),
             Field("currency", JsStr("USD")), Field("category", JsStr("Salary")),
             Field("description", JsStr("Pay")), Field("date", JsStr("2025-01-01"))>>),
     JsObj(<<Field("type", JsStr("expense")), Field("amount", JsNum(400)),
             Field("currency", JsStr("PLN")), Field("category", JsStr("Food")),
             Field("description", JsStr("Lidl")), Field("date", JsStr("2025-01-05")),
             Field("exchangeRateAtTime", JsNum(400))>>)}

\* Debts.handleSave with the optional fields left empty.
DebtInputs ==
    {JsObj(<<Field("name", JsStr("Car loan")), Field("totalAmount", JsNum(1000)),
             Field("paidAmount", JsNum(0)), Field("currency", JsStr("USD")),
             Field("interestRate", JsUndefined), Field("dueDate", JsUndefined),
             Field("minimumPayment", JsUndefined)>>)}

\* Savings.handleAddGoal with no deadline.
GoalInputs ==
    {JsObj(<<Field("name", JsStr("Holiday")), Field("targetAmount", JsNum(2000)),
             Field("currentAmount", JsNum(0)), Field("currency", JsStr("PLN")),
             Field("deadline", JsUndefined)>>)}

\* The amounts typed into "make a payment" and "add funds".
PaymentInputs == {1000}

\* Settings.handleSaveSettings: always the four keys.
SettingsInputs ==
    {JsObj(<<Field("primaryCurrency", JsStr("PLN")), Field("exchangeRate", JsNum(390)),
             Field("autoExchangeRate", JsBool(FALSE)), Field("monthlyBudget", JsNum(3000))>>),
     JsObj(<<Field("primaryCurrency", JsStr("USD")), Field("exchangeRate", JsNum(405)),
             Field("autoExchangeRate", JsBool(TRUE)), Field("monthlyBudget", JsUndefined)>>)}

\* Files a user may pick in the settings page, besides a file just exported:
\* no JSON at all, JSON that is no object, an object without the required keys,
\* with one of them, with both but of the wrong type, with a falsy one, and a
\* minimal well-typed document.
ForeignTexts ==
    {MalformedText,
     TextOf(JsNull),
     TextOf(JsNum(5)),
     TextOf(JsArr(<<>>)),
     TextOf(JsObj(<<Field("foo", JsStr("bar"))>>)),
     TextOf(JsObj(<<Field("transactions", JsArr(<<>>))>>)),
     TextOf(JsObj(<<Field("transactions", JsNum(1)), Field("settings", JsNum(1))>>)),
     TextOf(JsObj(<<Field("transactions", JsArr(<<>>)), Field("settings", JsStr(""))>>)),
     TextOf(JsObj(<<Field("transactions", JsArr(<<>>)), Field("settings", JsObj(<<>>))>>))}

\* App.handleExport downloads exportData(data) and changes nothing; the file is
\* one of those the user may pick.
ImportTexts == ForeignTexts \cup {exportData(data)}

\* The documents localStorage may hold when the application starts: nothing,
\* garbage, and a document of an earlier version (no debts, no savings goals,
\* no monthly budget) whose user had switched the automatic rate off.
StoredAtStart ==
    {NoItem,
     Item(MalformedText),
     Item(TextOf(JsObj(<<Field("transactions", JsArr(<<>>)),
                         Field("settings",
                               JsObj(<<Field("primaryCurrency", JsStr("PLN")),
                                       Field("exchangeRate", JsNum(390)),
                                       Field("autoExchangeRate", JsBool(FALSE))>>))>>)))}

Records(coll) == Get(data, coll).e

\* ---- handlers ----
\* A handler that wrote the document it was given instead of the one it built.
Commit_SavesPrevious(updated) ==
    /\ data' = updated
    /\ storage' = saveData(data)

\* setData((prev) => op(prev, ...)): the store operation saves and returns the
\* new document, which becomes the state.
Commit(updated) ==
    /\ data' = updated
    /\ storage' = saveData(updated)

HandleAddTransaction(tx) ==
    /\ IsArray(Get(data, "transactions"))
    /\ nextId <= MaxIds
    /\ Commit(addTransaction(data, tx, Uuid(nextId)))
    /\ nextId' = nextId + 1
    /\ UNCHANGED <<imported, importError, importSuccess>>
    /\ UNCHANGED notStore

HandleDeleteTransaction(i) ==
    /\ IsArray(Get(data, "transactions"))
    /\ i \in 1..Len(Records("transactions"))
    /\ Commit(deleteTransaction(data, Get(Records("transactions")[i], "id").s))
    /\ UNCHANGED <<nextId, imported, importError, importSuccess>>
    /\ UNCHANGED notStore

HandleAddDebt(debt) ==
    /\ IsArray(Get(data, "debts"))
    /\ nextId <= MaxIds
    /\ Commit(addDebt(data, debt, Uuid(nextId)))
    /\ nextId' = nextId + 1
    /\ UNCHANGED <<imported, importError, importSuccess>>
    /\ UNCHANGED notStore

\* Debts.handleMakePayment
HandleUpdateDebt(i, amount) ==
    /\ IsArray(Get(data, "debts"))
    /\ i \in 1..Len(Records("debts"))
    /\ LET debt == Records("debts")[i]
           sum == Get(debt, "paidAmount").n + amount
           newPaid == IF sum < Get(debt, "totalAmount").n THEN sum
                      ELSE Get(debt, "totalAmount").n
       IN  Commit(updateDebt(data, Put(debt, "paidAmount", JsNum(newPaid))))
    /\ UNCHANGED <<nextId, imported, importError, importSuccess>>
    /\ UNCHANGED notStore

HandleDeleteDebt(i) ==
    /\ IsArray(Get(data, "debts"))
    /\ i \in 1..Len(Records("debts"))
    /\ Commit(deleteDebt(data, Get(Records("debts")[i], "id").s))
    /\ UNCHANGED <<nextId, imported, importError, importSuccess>>
    /\ UNCHANGED notStore

HandleAddSavingsGoal(goal) ==
    /\ IsArray(Get(data, "savingsGoals"))
    /\ nextId <= MaxIds
    /\ Commit(addSavingsGoal(data, goal, Uuid(nextId)))
    /\ nextId' = nextId + 1
    /\ UNCHANGED <<imported, importError, importSuccess>>
    /\ UNCHANGED notStore

\* Savings.handleAddFunds
HandleUpdateSavingsGoal(i, amount) ==
    /\ IsArray(Get(data, "savingsGoals"))
    /\ i \in 1..Len(Records("savingsGoals"))
    /\ LET goal == Records("savingsGoals")[i]
           sum == Get(goal, "currentAmount").n + amount
           newAmount == IF sum < Get(goal, "targetAmount").n THEN sum
                        ELSE Get(goal, "targetAmount").n
       IN  Commit(updateSavingsGoal(data, Put(goal, "currentAmount", JsNum(newAmount))))
    /\ UNCHANGED <<nextId, imported, importError, importSuccess>>
    /\ UNCHANGED notStore

HandleDeleteSavingsGoal(i) ==
    /\ IsArray(Get(data, "savingsGoals"))
    /\ i \in 1..Len(Records("savingsGoals"))
    /\ Commit(deleteSavingsGoal(data, Get(Records("savingsGoals")[i], "id").s))
    /\ UNCHANGED <<nextId, imported, importError, importSuccess>>
    /\ UNCHANGED notStore

HandleUpdateSettings(settings) ==
    /\ Commit(updateSettings(data, settings))
    /\ UNCHANGED <<nextId, imported, importError, importSuccess>>
    /\ UNCHANGED notStore

\* Settings.handleFileChange with the text of the chosen file, through
\* App.handleImport to importData.
SettingsImportFile(text) ==
    IF ~text.wellFormed
    THEN /\ importError' = InvalidJsonError
         /\ importSuccess' = FALSE
         /\ UNCHANGED <<data, storage, nextId, imported>>
         /\ UNCHANGED notStore
    ELSE LET r == importData(text)
         IN  /\ imported' = IF IsNullish(r.result) THEN "null" ELSE "document"
             /\ storage' = IF r.saved THEN saveData(r.result) ELSE storage
             /\ data' = IF Truthy(r.result) THEN r.result ELSE data
             /\ importError' = NoError
             /\ importSuccess' = TRUE
             /\ UNCHANGED nextId
             /\ UNCHANGED notStore

StoreIdle ==
    /\ storage = NoItem
    /\ data = DEFAULT_DATA
    /\ nextId = 1
    /\ imported = "none"
    /\ importError = NoError
    /\ importSuccess = FALSE

StoreInit ==
    /\ storage \in StoredAtStart
    /\ data = loadData(storage)
    /\ nextId = 1
    /\ imported = "none"
    /\ importError = NoError
    /\ importSuccess = FALSE

StoreNext ==
    \/ \E tx \in TxInputs : HandleAddTransaction(tx)
    \/ \E i \in 1..MaxIds : HandleDeleteTransaction(i)
    \/ \E debt \in DebtInputs : HandleAddDebt(debt)
    \/ \E i \in 1..MaxIds, amount \in PaymentInputs : HandleUpdateDebt(i, amount)
    \/ \E i \in 1..MaxIds : HandleDeleteDebt(i)
    \/ \E goal \in GoalInputs : HandleAddSavingsGoal(goal)
    \/ \E i \in 1..MaxIds, amount \in PaymentInputs : HandleUpdateSavingsGoal(i, amount)
    \/ \E i \in 1..MaxIds : HandleDeleteSavingsGoal(i)
    \/ \E settings \in SettingsInputs : HandleUpdateSettings(settings)
    \/ \E text \in ImportTexts : SettingsImportFile(text)


\* ========================================================================
\* The live exchange rate (utils/exchangeRate.ts) and its two callers: the
\* mount effect of App and the refresh button of the settings page.
\* ========================================================================
CACHE_TTL == 1000 * 60 * 60

\* Date.now() when the application starts: long after the epoch.
StartTime == 10 * CACHE_TTL

\* How far the clock moves between two steps of the application.
TickSteps == {1, CACHE_TTL - 1}

Callers == {"mount", "refresh"}

\* a?.key
OptGet(v, key) == IF IsNullish(v) THEN JsUndefined ELSE Get(v, key)

\* The comparison with <= in place of <.
WithinTTL_Inclusive(time, timestamp) ==
    CASE timestamp.k = "number" -> time - timestamp.n <= CACHE_TTL
      [] timestamp.k = "null" -> time <= CACHE_TTL
      [] timestamp.k = "boolean" -> time - timestamp.n <= CACHE_TTL
      [] OTHER -> FALSE

\* Date.now() - timestamp < CACHE_TTL; the difference is NaN, and the
\* comparison false, for a timestamp that is undefined or no numeric string.
WithinTTL(time, timestamp) ==
    CASE timestamp.k = "number" -> time - timestamp.n < CACHE_TTL
      [] timestamp.k = "null" -> time < CACHE_TTL
      [] timestamp.k = "boolean" -> time - timestamp.n < CACHE_TTL
      [] OTHER -> FALSE

CacheMiss == [hit |-> FALSE, value |-> JsUndefined]
CacheHit(rate) == [hit |-> TRUE, value |-> rate]

\* The first try block of fetchLiveRate: any exception means a miss.
CacheCheck(item, time) ==
    IF ~item.present THEN CacheMiss
    ELSE IF ~item.text.wellFormed THEN CacheMiss
    ELSE IF IsNullish(item.text.value) THEN CacheMiss
    ELSE IF WithinTTL(time, Get(item.text.value, "timestamp"))
         THEN CacheHit(Get(item.text.value, "rate"))
         ELSE CacheMiss

\* How the network call ends: fetch rejects, the response is not OK, its body
\* is no JSON, or it is OK with a JSON body.
NetOutcome(kind, body) == [kind |-> kind, body |-> body]

RatesBody(pln) == JsObj(<<Field("result", JsStr("success")),
                          Field("rates", JsObj(<<Field("USD", JsNum(1)), Field("PLN", pln)>>))>>)

Bodies ==
    {JsNull,
     JsObj(<<Field("result", JsStr("error"))>>),
     JsObj(<<Field("rates", JsObj(<<Field("USD", JsNum(1))>>))>>),
     RatesBody(JsStr("4.12")),
     RatesBody(JsNull),
     RatesBody(JsNum(0)),
     RatesBody(JsNum(-412)),
     RatesBody(JsNum(412))}

Outcomes ==
    {NetOutcome("reject", JsNull), NetOutcome("notOk", JsObj(<<>>)),
     NetOutcome("badBody", JsNull)} \cup {NetOutcome("ok", b) : b \in Bodies}

\* How a call of fetchLiveRate ends: the promise is fulfilled with a value or
\* rejected, and the cache entry may have been written.
Fulfilled(value) == [settled |-> "fulfilled", value |-> value, write |-> FALSE, item |-> NoItem]
FulfilledAndCached(value, item) ==
    [settled |-> "fulfilled", value |-> value, write |-> TRUE, item |-> item]
Rejected == [settled |-> "rejected", value |-> JsUndefined, write |-> FALSE, item |-> NoItem]

CacheEntry(rate, time) ==
    Item(JSONstringify(JsObj(<<Field("rate", rate), Field("timestamp", JsNum(time))>>)))

FetchFresh_AcceptsAnyNumber(outcome, time) ==
    IF outcome.kind # "ok" THEN Fulfilled(JsNull)
    ELSE LET rate == OptGet(OptGet(outcome.body, "rates"), "PLN")
         IN  IF rate.k = "number"
             THEN FulfilledAndCached(rate, CacheEntry(rate, time))
             ELSE Fulfilled(JsNull)

\* The second try block of fetchLiveRate, once the network call has ended.
FetchFresh(outcome, time) ==
    IF outcome.kind = "reject" THEN Fulfilled(JsNull)
    ELSE IF outcome.kind = "notOk" THEN Fulfilled(JsNull)
    ELSE IF outcome.kind = "badBody" THEN Fulfilled(JsNull)
    ELSE LET rate == OptGet(OptGet(outcome.body, "rates"), "PLN")
         IN  IF rate.k = "number" /\ rate.n > 0
             THEN FulfilledAndCached(rate, CacheEntry(rate, time))
             ELSE Fulfilled(JsNull)

\* The state of a caller's call of fetchLiveRate.
FetchIdle == [phase |-> "idle", settled |-> "none", value |-> JsUndefined, source |-> "none"]
FetchAwaiting == [phase |-> "awaiting", settled |-> "none", value |-> JsUndefined,
                  source |-> "network"]
FetchSettled(settled, value, source) ==
    [phase |-> "settled", settled |-> settled, value |-> value, source |-> source]

\* The text of the exchange-rate field of the settings form, by what
\* parseFloat makes of it: a number, or NaN.
FieldText(valid, n) == [valid |-> valid, n |-> n]
StringOf(v) == IF v.k = "number" THEN FieldText(TRUE, v.n) ELSE FieldText(FALSE, 0)

\* What the user types into the field.
FormTexts == {FieldText(TRUE, 420)}

SettingsOf(doc) == Get(doc, "settings")

\* What the caller does with the settled promise.
Deliver(c, settled, value) ==
    IF c = "mount"
    THEN /\ IF settled = "fulfilled" /\ Truthy(value)
            THEN Commit(updateSettings(data, JsObj(<<Field("exchangeRate", value)>>)))
            ELSE UNCHANGED <<data, storage>>
         /\ UNCHANGED <<fetchingRate, formRate>>
    ELSE /\ formRate' = IF settled = "fulfilled" /\ Truthy(value)
                        THEN StringOf(value) ELSE formRate
         /\ fetchingRate' = (settled # "fulfilled")
         /\ UNCHANGED <<data, storage>>

\* fetchLiveRate() up to its first await, and the caller's continuation if the
\* cache answers.
StartFetch(c) ==
    LET chk == CacheCheck(cache, now)
    IN  /\ cache' = cache
        /\ IF chk.hit
           THEN /\ fetch' = [fetch EXCEPT ![c] = FetchSettled("fulfilled", chk.value, "cache")]
                /\ Deliver(c, "fulfilled", chk.value)
           ELSE /\ fetch' = [fetch EXCEPT ![c] = FetchAwaiting]
                /\ fetchingRate' = (IF c = "refresh" THEN TRUE ELSE fetchingRate)
                /\ UNCHANGED <<data, storage, formRate>>

\* App's effect on mount.
MountEffect ==
    /\ ~mounted
    /\ mounted' = TRUE
    /\ IF Truthy(Get(SettingsOf(data), "autoExchangeRate"))
       THEN StartFetch("mount")
       ELSE UNCHANGED <<cache, fetch, data, storage, fetchingRate, formRate>>
    /\ UNCHANGED <<now, ticks, formAuto>>
    /\ UNCHANGED notRate

\* Settings.handleRefreshRate; the button is disabled while a refresh runs.
HandleRefreshRate ==
    /\ mounted
    /\ ~fetchingRate
    /\ StartFetch("refresh")
    /\ UNCHANGED <<mounted, now, ticks, formAuto>>
    /\ UNCHANGED notRate

\* The network call of caller c ends; fetchLiveRate and the caller run on.
NetworkResponds(c, outcome) ==
    /\ fetch[c].phase = "awaiting"
    /\ LET r == FetchFresh(outcome, now)
       IN  /\ cache' = IF r.write THEN r.item ELSE cache
           /\ fetch' = [fetch EXCEPT ![c] = FetchSettled(r.settled, r.value, "network")]
           /\ Deliver(c, r.settled, r.value)
    /\ UNCHANGED <<mounted, now, ticks, formAuto>>
    /\ UNCHANGED notRate

\* Time passes.
Tick(delta) ==
    /\ ticks < MaxTicks
    /\ ticks' = ticks + 1
    /\ now' = now + delta
    /\ UNCHANGED <<cache, fetch, mounted, fetchingRate, formRate, formAuto, data, storage>>
    /\ UNCHANGED notRate

\* The user edits the currency section of the settings form.
EditSettingsForm(text, auto) ==
    /\ mounted
    /\ formRate' = text
    /\ formAuto' = auto
    /\ <<formRate', formAuto'>> # <<formRate, formAuto>>
    /\ UNCHANGED <<cache, fetch, mounted, fetchingRate, now, ticks, data, storage>>
    /\ UNCHANGED notRate

\* Settings.handleSaveSettings.
FormSettings ==
    JsObj(<<Field("primaryCurrency", Get(SettingsOf(data), "primaryCurrency")),
            Field("exchangeRate",
                  JsNum(IF formRate.valid THEN formRate.n ELSE DEFAULT_EXCHANGE_RATE)),
            Field("autoExchangeRate", JsBool(formAuto)),
            Field("monthlyBudget", JsUndefined)>>)

HandleSaveSettings ==
    /\ mounted
    /\ HandleUpdateSettings(FormSettings)

CachedAtStart ==
    {NoItem,
     Item(MalformedText),
     Item(TextOf(JsNull)),
     CacheEntry(JsNum(410), StartTime),
     CacheEntry(JsNum(410), StartTime - CACHE_TTL)}

RateIdle ==
    /\ cache = NoItem
    /\ now = StartTime
    /\ ticks = 0
    /\ fetch = [c \in Callers |-> FetchIdle]
    /\ mounted = FALSE
    /\ fetchingRate = FALSE
    /\ formRate = FieldText(TRUE, DEFAULT_EXCHANGE_RATE)
    /\ formAuto = TRUE

RateInit ==
    /\ StoreInit
    /\ cache \in CachedAtStart
    /\ now = StartTime
    /\ ticks = 0
    /\ fetch = [c \in Callers |-> FetchIdle]
    /\ mounted = FALSE
    /\ fetchingRate = FALSE
    /\ formRate = StringOf(Get(SettingsOf(data), "exchangeRate"))
    /\ formAuto = Truthy(Get(SettingsOf(data), "autoExchangeRate"))

\* What the item under CACHE_KEY may hold when it was not written by
\* fetchLiveRate (localStorage is shared by every script of the origin and open
\* to the user): a fresh entry whose rate is negative, zero, a string, null or
\* missing, and a text that is a number.
ForeignCacheTexts ==
    {TextOf(JsObj(<<Field("rate", rate), Field("timestamp", JsNum(StartTime))>>)) :
        rate \in {JsNum(-412), JsNum(0), JsStr("4.12"), JsNull}}
    \cup {TextOf(JsObj(<<Field("timestamp", JsNum(StartTime))>>)), TextOf(JsNum(5))}

AnyCacheAtStart == CachedAtStart \cup {Item(text) : text \in ForeignCacheTexts}

\* The same start with any content of the cache item.
RateInitAnyCache ==
    /\ StoreInit
    /\ cache \in AnyCacheAtStart
    /\ now = StartTime
    /\ ticks = 0
    /\ fetch = [c \in Callers |-> FetchIdle]
    /\ mounted = FALSE
    /\ fetchingRate = FALSE
    /\ formRate = StringOf(Get(SettingsOf(data), "exchangeRate"))
    /\ formAuto = Truthy(Get(SettingsOf(data), "autoExchangeRate"))

RateNext ==
    \/ MountEffect
    \/ HandleRefreshRate
    \/ \E c \in Callers, outcome \in Outcomes : NetworkResponds(c, outcome)
    \/ \E delta \in TickSteps : Tick(delta)
    \/ \E text \in FormTexts, auto \in BOOLEAN : EditSettingsForm(text, auto)
    \/ HandleSaveSettings

\* ------------------------------------------------------------------------
\* Properties of the live exchange rate
\* ------------------------------------------------------------------------
\* The network call of a fetch failed: a network error, a response that is not
\* OK or has no JSON body, or a body whose rates.PLN is missing, no number, or
\* not positive.
FailedFetch(outcome) ==
    \/ outcome.kind # "ok"
    \/ IsNullish(outcome.body)
    \/ IsNullish(Get(outcome.body, "rates"))
    \/ Get(Get(outcome.body, "rates"), "PLN").k # "number"
    \/ Get(Get(outcome.body, "rates"), "PLN").n <= 0

\* C10: when the network call of fetchLiveRate fails, the promise is fulfilled
\* with null (it is not rejected), the rate cache is not written, and the
\* application leaves settings.exchangeRate, in memory and in storage, as it was.
C10_FailedFetchKeepsRate ==
    [][\A c \in Callers :
          fetch'[c] # fetch[c] =>
          \A outcome \in Outcomes :
          (FailedFetch(outcome) /\ NetworkResponds(c, outcome)) =>
              /\ fetch'[c] = FetchSettled("fulfilled", JsNull, "network")
              /\ cache' = cache
              /\ Get(SettingsOf(data'), "exchangeRate") = Get(SettingsOf(data), "exchangeRate")
              /\ data' = data
              /\ storage' = storage]_vars

\* The fetch started on mount has failed: nothing is cached and the configured
\* rate is still the default one.
C10_Witness ==
    /\ fetch["mount"] = FetchSettled("fulfilled", JsNull, "network")
    /\ ~cache.present
    /\ Get(SettingsOf(data), "exchangeRate") = JsNum(DEFAULT_EXCHANGE_RATE)
    /\ storage = NoItem

\* The live rate a successful network call delivers.
LiveRate(outcome) == Get(Get(outcome.body, "rates"), "PLN")

\* The item under CACHE_KEY is the entry a successful fetch wrote.
IsFetchedEntry(item) ==
    /\ item.present
    /\ item.text.wellFormed
    /\ IsObject(item.text.value)
    /\ Get(item.text.value, "rate").k = "number"
    /\ Get(item.text.value, "timestamp").k = "number"
    /\ item = CacheEntry(Get(item.text.value, "rate"), Get(item.text.value, "timestamp").n)

\* The age of the entry a successful fetch wrote.
EntryAge(item, time) == time - Get(item.text.value, "timestamp").n

\* C11: a call of fetchLiveRate made while the cache holds the entry of a
\* successful fetch less than one hour old returns the cached rate without a
\* network call; a call made when that entry is one hour old or older, or when
\* the item is absent or no such entry, makes one network call, which is never
\* repeated: when it ends the call settles, and if it succeeded the cache holds
\* the new rate with the time of that moment.  Nothing else writes the cache.
C11_CacheForOneHour ==
    [][/\ \A c \in Callers :
            fetch'[c] # fetch[c] =>
              IF fetch[c].phase # "awaiting"
              THEN /\ cache' = cache
                   /\ IF IsFetchedEntry(cache) /\ EntryAge(cache, now) < CACHE_TTL
                      THEN fetch'[c] = FetchSettled("fulfilled",
                                                    Get(cache.text.value, "rate"), "cache")
                      ELSE fetch'[c] = FetchAwaiting
              ELSE /\ fetch'[c].phase = "settled"
                   /\ fetch'[c].source = "network"
                   /\ \A outcome \in Outcomes :
                        (~FailedFetch(outcome) /\ NetworkResponds(c, outcome)) =>
                            /\ fetch'[c].value = LiveRate(outcome)
                            /\ cache' = CacheEntry(LiveRate(outcome), now)
                            /\ IsFetchedEntry(cache')
       /\ cache' # cache =>
            \E c \in Callers :
                /\ fetch[c].phase = "awaiting"
                /\ fetch'[c] # fetch[c]
                /\ Truthy(fetch'[c].value)]_vars

\* After the fetch on mount succeeded, a refresh one millisecond short of an
\* hour later was answered from the cache.
C11_Witness ==
    /\ fetch["mount"].source = "network"
    /\ Truthy(fetch["mount"].value)
    /\ fetch["refresh"] = FetchSettled("fulfilled", fetch["mount"].value, "cache")
    /\ IsFetchedEntry(cache)
    /\ EntryAge(cache, now) = CACHE_TTL - 1

\* C28: the live rate fetched at application start is written into
\* settings.exchangeRate only while settings.autoExchangeRate is true at the
\* moment of the write: a rate saved by hand with the automatic rate switched
\* off, while the fetch was pending, is not overwritten when the fetch resolves.
C28_LiveRateOnlyWhileAutomatic ==
    [][(/\ fetch["mount"].phase = "awaiting"
        /\ fetch'["mount"].phase = "settled"
        /\ Get(SettingsOf(data'), "exchangeRate") # Get(SettingsOf(data), "exchangeRate"))
          => Truthy(Get(SettingsOf(data), "autoExchangeRate"))]_vars

\* C29: every value fetchLiveRate returns that is not null is a number greater
\* than 0, from the network and from the cache, whatever the cache item holds.
\* (A returned undefined, from an entry without a rate, is counted with null.)
C29_ReturnsPositiveNumberOrNull ==
    \A c \in Callers :
        (fetch[c].phase = "settled" /\ fetch[c].settled = "fulfilled"
           /\ ~IsNullish(fetch[c].value)) =>
            fetch[c].value.k = "number" /\ fetch[c].value.n > 0

\* The same for the calls answered by the network.
C29_NetworkValuesArePositive ==
    \A c \in Callers :
        (fetch[c].phase = "settled" /\ fetch[c].source = "network"
           /\ fetch[c].value # JsNull) =>
            fetch[c].value.k = "number" /\ fetch[c].value.n > 0

\* ------------------------------------------------------------------------
\* Properties of import and export
\* ------------------------------------------------------------------------
\* A JSON text the specification lets importData accept: an object with a
\* `transactions` array and a `settings` object.
ValidDocument(text) ==
    /\ text.wellFormed
    /\ IsObject(text.value)
    /\ IsArray(Get(text.value, "transactions"))
    /\ IsObject(Get(text.value, "settings"))

Keys(v) == IF IsObject(v) THEN {v.e[i].key : i \in 1..Len(v.e)} ELSE {}

\* Equality field for field: a key that is absent equals one that is undefined.
RECURSIVE FieldForField(_, _)
FieldForField(a, b) ==
    CASE IsObject(a) /\ IsObject(b) ->
            \A key \in Keys(a) \cup Keys(b) : FieldForField(Get(a, key), Get(b, key))
      [] IsArray(a) /\ IsArray(b) ->
            /\ Len(a.e) = Len(b.e)
            /\ \A i \in 1..Len(a.e) : FieldForField(a.e[i], b.e[i])
      [] OTHER -> a.k = b.k /\ a.n = b.n /\ a.s = b.s

\* C7: importData accepts a text only if it parses to an object with a
\* `transactions` array and a `settings` object; for every other text it returns
\* null and writes nothing to persistent storage.
C7_ImportValidatesShape ==
    [][\A text \in ImportTexts :
          SettingsImportFile(text) =>
              IF ValidDocument(text)
              THEN importData(text).result = text.value
              ELSE /\ IsNullish(importData(text).result)
                   /\ ~importData(text).saved
                   /\ storage' = storage]_vars

\* C8: when an import in the settings page is rejected the caller gets a failure
\* signal, neither the persisted document nor the state in memory changes, and
\* the import is not reported as successful.
C8_RejectedImportSignalsFailure ==
    [][\A text \in ImportTexts :
          (SettingsImportFile(text) /\ IsNullish(importData(text).result)) =>
              /\ data' = data
              /\ storage' = storage
              /\ importSuccess' = FALSE
              /\ importError' # NoError]_vars

PersistedIsState ==
    /\ storage.present
    /\ storage.text.wellFormed
    /\ FieldForField(storage.text.value, data)

Collections == {"transactions", "debts", "savingsGoals"}

RecordInputs(coll) ==
    CASE coll = "transactions" -> TxInputs
      [] coll = "debts" -> DebtInputs
      [] OTHER -> GoalInputs

\* The identifiers handed out so far or next, and one that no record carries.
FrameIds == {Uuid(n) : n \in 1..(MaxIds + 1)}

\* The records an update may be called with: any content under any identifier.
UpdateInputs(coll) ==
    {Put(rec, "id", JsStr(id)) : rec \in RecordInputs(coll), id \in FrameIds}

\* The partials updateSettings is called with: the four keys of the settings
\* page, the one key of the live rate, and none.
SettingsPartials ==
    SettingsInputs \cup {JsObj(<<Field("exchangeRate", JsNum(412))>>), JsObj(<<>>)}

\* A document in which two transactions carry the same identifier, around one
\* that does not: what a file written by hand may hold.
TwinsDocument ==
    Put(DEFAULT_DATA, "transactions",
        JsArr(<<JsObj(<<Field("id", JsStr(Uuid(1))), Field("amount", JsNum(100))>>),
                JsObj(<<Field("id", JsStr(Uuid(2))), Field("amount", JsNum(200))>>),
                JsObj(<<Field("id", JsStr(Uuid(1))), Field("amount", JsNum(300))>>)>>))

Recs(doc, coll) == Get(doc, coll).e

\* Every key of the object but `key` is in `out` what it was in `doc`.
OtherKeysKept(doc, out, key) ==
    /\ IsObject(out)
    /\ \A k \in (Keys(doc) \cup Keys(out)) \ {key} :
          /\ HasKey(out, k) = HasKey(doc, k)
          /\ Get(out, k) = Get(doc, k)

\* old and new are the targeted collection before and after.
AddFrame(old, new, rec, id) ==
    /\ Len(new) = Len(old) + 1
    /\ \A i \in 1..Len(old) : new[i] = old[i]
    /\ Keys(new[Len(new)]) = Keys(rec) \cup {"id"}
    /\ Get(new[Len(new)], "id") = JsStr(id)
    /\ \A k \in Keys(rec) \ {"id"} : Get(new[Len(new)], k) = Get(rec, k)

\* The positions of the records that do not carry the identifier.
KeptPositions(old, id) == {i \in 1..Len(old) : Get(old[i], "id") # JsStr(id)}

DeleteFrame(old, new, kept) ==
    /\ Len(new) = Cardinality(kept)
    /\ \A i \in kept : new[Cardinality({k \in kept : k <= i})] = old[i]

UpdateFrame(old, new, rec) ==
    /\ Len(new) = Len(old)
    /\ \A i \in 1..Len(old) :
          new[i] = IF Get(old[i], "id") = Get(rec, "id") THEN rec ELSE old[i]

SettingsFrame(old, new, partial) ==
    /\ IsObject(new)
    /\ \A k \in Keys(partial) : HasKey(new, k) /\ Get(new, k) = Get(partial, k)
    /\ \A k \in (Keys(old) \cup Keys(new)) \ Keys(partial) :
          /\ HasKey(new, k) = HasKey(old, k)
          /\ Get(new, k) = Get(old, k)

\* The document returned differs from the one given in the collection only,
\* which is still an array.
OnlyCollection(doc, out, coll) ==
    OtherKeysKept(doc, out, coll) /\ IsArray(Get(out, coll))

AddedTo(doc, out, coll, rec, id) ==
    OnlyCollection(doc, out, coll) /\ AddFrame(Recs(doc, coll), Recs(out, coll), rec, id)

DeletedFrom(doc, out, coll, id) ==
    /\ OnlyCollection(doc, out, coll)
    /\ DeleteFrame(Recs(doc, coll), Recs(out, coll), KeptPositions(Recs(doc, coll), id))

UpdatedIn(doc, out, coll, rec) ==
    /\ OnlyCollection(doc, out, coll)
    /\ UpdateFrame(Recs(doc, coll), Recs(out, coll), rec)
    /\ (\A i \in 1..Len(Recs(doc, coll)) : Get(Recs(doc, coll)[i], "id") # Get(rec, "id"))
          => out = doc

SettingsUpdated(doc, out, partial) ==
    /\ OtherKeysKept(doc, out, "settings")
    /\ SettingsFrame(Get(doc, "settings"), Get(out, "settings"), partial)

\* Every mutation of the store, applied to the document, changes its target
\* only; `fresh` is the identifier an add hands out.
FramesHold(doc, fresh) ==
    /\ \A coll \in Collections :
          IsArray(Get(doc, coll)) =>
              /\ \A rec \in RecordInputs(coll) :
                    AddedTo(doc, AddTo(doc, coll, rec, fresh), coll, rec, fresh)
              /\ \A id \in FrameIds :
                    DeletedFrom(doc, DeleteFrom(doc, coll, id), coll, id)
              /\ \A rec \in UpdateInputs(coll) :
                    UpdatedIn(doc, UpdateIn(doc, coll, rec), coll, rec)
    /\ \A partial \in SettingsPartials :
          SettingsUpdated(doc, updateSettings(doc, partial), partial)

\* The same for the document with the twins.
TwinsFramesHold == FramesHold(TwinsDocument, Uuid(3))

\* The identifier the next add hands out is carried by no record.
NextIdIsFresh ==
    \A coll \in Collections :
        IsArray(Get(data, coll)) =>
            \A i \in 1..Len(Recs(data, coll)) :
                Get(Recs(data, coll)[i], "id") # JsStr(Uuid(nextId))

\* C20: every store mutation returns a document that differs from its input in
\* the targeted part only: add appends one record under a fresh id, delete
\* removes exactly the records with the id and keeps the others in order,
\* update replaces exactly the records with the id (none when it is absent),
\* updateSettings changes only the keys of the partial; every other
\* collection, key and settings key is unchanged.
C20_MutationsChangeOnlyTheirTarget ==
    /\ FramesHold(data, Uuid(nextId))
    /\ TwinsFramesHold
    /\ NextIdIsFresh

\* A debt was added and paid, a transaction was added and deleted, and the
\* settings were updated.
C20_Witness ==
    /\ nextId = 3
    /\ IsArray(Get(data, "transactions")) /\ Len(Recs(data, "transactions")) = 0
    /\ IsArray(Get(data, "debts")) /\ Len(Recs(data, "debts")) = 1
    /\ Get(Recs(data, "debts")[1], "paidAmount") = JsNum(1000)
    /\ IsArray(Get(data, "savingsGoals")) /\ Len(Recs(data, "savingsGoals")) = 0
    /\ Get(Get(data, "settings"), "primaryCurrency") = JsStr("PLN")
    /\ Get(Get(data, "settings"), "autoExchangeRate") = JsBool(FALSE)

\* ========================================================================
\* Text.  A string that the importer inspects is the sequence of its
\* characters, each a one-character string; a letter outside ASCII is written
\* as a two-character token ("z." for z with dot above, "e," for e with ogonek,
\* "l/" for l with stroke, "A*" and "1/4" for the two characters of a
\* mis-encoded z with dot above).
\* ========================================================================
Whitespace == {" ", "\t", "\n", "\r"}
Digits == <<"0", "1", "2", "3", "4", "5", "6", "7", "8", "9">>
UpperCase == <<"A", "B", "C", "D", "E", "F", "G", "H", "I", "J", "K", "L", "M", "N",
               "O", "P", "Q", "R", "S", "T", "U", "V", "W", "X", "Y", "Z", "Z.", "A*">>
LowerCase == <<"a", "b", "c", "d", "e", "f", "g", "h", "i", "j", "k", "l", "m", "n",
               "o", "p", "q", "r", "s", "t", "u", "v", "w", "x", "y", "z", "z.", "a*">>

Min(S) == CHOOSE x \in S : \A y \in S : x <= y
Max(S) == CHOOSE x \in S : \A y \in S : x >= y

IndexIn(seq, x) == IF \E i \in 1..Len(seq) : seq[i] = x
                   THEN CHOOSE i \in 1..Len(seq) : seq[i] = x /\ \A j \in 1..(i - 1) : seq[j] # x
                   ELSE 0

\* The characters of s from position from to position to, as far as s has them.
Slice(s, from, to) ==
    LET last == IF to < Len(s) THEN to ELSE Len(s)
    IN  IF last < from THEN <<>> ELSE [i \in 1..(last - from + 1) |-> s[from + i - 1]]

IsDigit(c) == IndexIn(Digits, c) # 0

\* String.prototype.trim
Trim(s) ==
    LET solid == {i \in 1..Len(s) : s[i] \notin Whitespace}
    IN  IF solid = {} THEN <<>> ELSE SubSeq(s, Min(solid), Max(solid))

ToLowerCase(s) ==
    [i \in 1..Len(s) |-> IF IndexIn(UpperCase, s[i]) # 0
                         THEN LowerCase[IndexIn(UpperCase, s[i])] ELSE s[i]]

ToUpperCase(s) ==
    [i \in 1..Len(s) |-> IF IndexIn(LowerCase, s[i]) # 0
                         THEN UpperCase[IndexIn(LowerCase, s[i])] ELSE s[i]]

\* String.prototype.includes
Includes(s, part) ==
    \E i \in 1..(Len(s) - Len(part) + 1) : SubSeq(s, i, i + Len(part) - 1) = part

\* s.replace(/c/g, '') for the characters c of a set
RemoveAll(s, chars) == SelectSeq(s, LAMBDA c : c \notin chars)

\* s.replace(from, to) for one-character strings: the first occurrence only
ReplaceFirst(s, from, to) ==
    IF IndexIn(s, from) = 0 THEN s ELSE [s EXCEPT ![IndexIn(s, from)] = to]

\* s.split(d).length for a one-character d
SplitCount(s, d) == Cardinality({i \in 1..Len(s) : s[i] = d}) + 1

\* text.split(/\r?\n/)
RECURSIVE SplitLines(_)
SplitLines(text) ==
    LET nl == IndexIn(text, "\n")
        end == IF nl > 1 /\ text[nl - 1] = "\r" THEN nl - 2 ELSE nl - 1
    IN  IF nl = 0 THEN <<text>>
        ELSE <<SubSeq(text, 1, end)>> \o SplitLines(SubSeq(text, nl + 1, Len(text)))

\* ------------------------------------------------------------------------
\* Numbers read from text.  A finite number is m * 10^e, exactly, with m not a
\* multiple of 10 (0 is m = 0, e = 0); the other numbers are NaN and the two
\* infinities.
\* ------------------------------------------------------------------------
NaN == [k |-> "nan", m |-> 0, e |-> 0]
Infinite(negative) == [k |-> "inf", m |-> IF negative THEN -1 ELSE 1, e |-> 0]

RECURSIVE Finite(_, _)
Finite(m, e) ==
    IF m = 0 THEN [k |-> "fin", m |-> 0, e |-> 0]
    ELSE IF m % 10 = 0 THEN Finite(m \div 10, e + 1)
    ELSE [k |-> "fin", m |-> m, e |-> e]

IsNaN(x) == x.k = "nan"
\* A test for zero that no number passes.
IsZero_Never(x) == FALSE

IsZero(x) == x.k = "fin" /\ x.m = 0
\* A test that every number passes, whatever its sign.
IsPositive_AnyNumber(x) == x.k # "nan"

IsPositive(x) == x.k # "nan" /\ x.m > 0
Abs(x) == [x EXCEPT !.m = IF x.m < 0 THEN -x.m ELSE x.m]

RECURSIVE DigitsValue(_)
DigitsValue(ds) ==
    IF ds = <<>> THEN 0
    ELSE 10 * DigitsValue(SubSeq(ds, 1, Len(ds) - 1)) + (IndexIn(Digits, ds[Len(ds)]) - 1)

\* How many digits s has from position p on.
DigitRun(s, p) ==
    Max({n \in 0..(Len(s) - p + 1) : \A i \in p..(p + n - 1) : IsDigit(s[i])})

CharAt(s, p) == IF p \in 1..Len(s) THEN s[p] ELSE ""

\* The exponent part at position q: e or E, a sign, digits; 0 if there is none.
ExponentAt(t, q) ==
    IF CharAt(t, q) \notin {"e", "E"} THEN 0
    ELSE IF CharAt(t, q + 1) = "-"
    THEN -DigitsValue(Slice(t, q + 2, q + 1 + DigitRun(t, q + 2)))
    ELSE IF CharAt(t, q + 1) = "+"
    THEN DigitsValue(Slice(t, q + 2, q + 1 + DigitRun(t, q + 2)))
    ELSE DigitsValue(Slice(t, q + 1, q + DigitRun(t, q + 1)))

\* The number whose literal has n1 digits from position p, then, if a point
\* follows, n2 more digits, then an exponent part.
ReadFraction(t, negative, p, n1, n2) ==
    IF n1 + n2 = 0 THEN NaN
    ELSE Finite((IF negative THEN -1 ELSE 1)
                    * DigitsValue(Slice(t, p, p + n1 - 1) \o Slice(t, p + n1 + 1, p + n1 + n2)),
                ExponentAt(t, p + n1 + (IF CharAt(t, p + n1) = "." THEN 1 + n2 ELSE 0)) - n2)

ReadDecimal(t, negative, p, n1) ==
    IF Slice(t, p, p + 7) = <<"I", "n", "f", "i", "n", "i", "t", "y">> THEN Infinite(negative)
    ELSE ReadFraction(t, negative, p, n1,
                      IF CharAt(t, p + n1) = "." THEN DigitRun(t, p + n1 + 1) ELSE 0)

TrimStart(s) ==
    IF \A i \in 1..Len(s) : s[i] \in Whitespace THEN <<>>
    ELSE Slice(s, Min({i \in 1..Len(s) : s[i] \notin Whitespace}), Len(s))

\* parseFloat: the longest prefix, after leading white space, that is a decimal
\* literal: a sign, digits with at most one point, an exponent.
ReadSigned(t, p) == ReadDecimal(t, CharAt(t, 1) = "-", p, DigitRun(t, p))

parseFloat(s) ==
    ReadSigned(TrimStart(s), IF CharAt(TrimStart(s), 1) \in {"+", "-"} THEN 2 ELSE 1)

\* ========================================================================
\* The bank-statement importer (utils/pkoImport.ts)
\* ========================================================================
PKO_COLUMNS ==
    [date |-> <<<<"d", "a", "t", "a", " ", "o", "p", "e", "r", "a", "c", "j", "i">>, <<"d", "a", "t", "a", " ", "t", "r", "a", "n", "s", "a", "k", "c", "j", "i">>, <<"d", "a", "t", "a", " ", "k", "s", "i", "e,", "g", "o", "w", "a", "n", "i", "a">>>>,
     amount |-> <<<<"k", "w", "o", "t", "a">>, <<"k", "w", "o", "t", "a", " ", "t", "r", "a", "n", "s", "a", "k", "c", "j", "i">>>>,
     currency |-> <<<<"w", "a", "l", "u", "t", "a">>>>,
     description |-> <<<<"o", "p", "i", "s", " ", "t", "r", "a", "n", "s", "a", "k", "c", "j", "i">>, <<"t", "y", "t", "u", "l/">>, <<"t", "y", "t", "u", "l">>, <<"t", "y", "t", "u", "l/", " ", "t", "r", "a", "n", "s", "a", "k", "c", "j", "i">>>>,
     counterparty |-> <<<<"n", "a", "d", "a", "w", "c", "a", " ", "/", " ", "o", "d", "b", "i", "o", "r", "c", "a">>, <<"n", "a", "d", "a", "w", "c", "a", "/", "o", "d", "b", "i", "o", "r", "c", "a">>,
                        <<"n", "a", "z", "w", "a", " ", "k", "o", "n", "t", "r", "a", "h", "e", "n", "t", "a">>, <<"k", "o", "n", "t", "r", "a", "h", "e", "n", "t">>>>]

\* The keywords in the order Object.entries yields them.
CATEGORY_KEYWORDS ==
    <<<<<<"c", "z", "y", "n", "s", "z">>, "Housing">>,
      <<<<"w", "y", "n", "a", "j", "e", "m">>, "Housing">>,
      <<<<"m", "i", "e", "s", "z", "k", "a", "n", "i", "e">>, "Housing">>,
      <<<<"r", "e", "n", "t">>, "Housing">>,
      <<<<"m", "o", "r", "t", "g", "a", "g", "e">>, "Housing">>,
      <<<<"h", "i", "p", "o", "t", "e", "k", "a">>, "Housing">>,
      <<<<"b", "i", "e", "d", "r", "o", "n", "k", "a">>, "Food">>,
      <<<<"l", "i", "d", "l">>, "Food">>,
      <<<<"z.", "a", "b", "k", "a">>, "Food">>,
      <<<<"z", "a", "b", "k", "a">>, "Food">>,
      <<<<"a", "u", "c", "h", "a", "n">>, "Food">>,
      <<<<"c", "a", "r", "r", "e", "f", "o", "u", "r">>, "Food">>,
      <<<<"k", "a", "u", "f", "l", "a", "n", "d">>, "Food">>,
      <<<<"s", "t", "o", "k", "r", "o", "t", "k", "a">>, "Food">>,
      <<<<"n", "e", "t", "t", "o">>, "Food">>,
      <<<<"r", "e", "s", "t", "a", "u", "r", "a", "n", "t">>, "Food">>,
      <<<<"r", "e", "s", "t", "a", "u", "r", "a", "c", "j", "a">>, "Food">>,
      <<<<"m", "c", "d", "o", "n", "a", "l", "d", "s">>, "Food">>,
      <<<<"k", "f", "c">>, "Food">>,
      <<<<"u", "b", "e", "r", " ", "e", "a", "t", "s">>, "Food">>,
      <<<<"g", "l", "o", "v", "o">>, "Food">>,
      <<<<"b", "o", "l", "t", " ", "f", "o", "o", "d">>, "Food">>,
      <<<<"p", "y", "s", "z", "n", "e">>, "Food">>,
      <<<<"u", "b", "e", "r">>, "Transportation">>,
      <<<<"b", "o", "l", "t">>, "Transportation">>,
      <<<<"o", "r", "l", "e", "n">>, "Transportation">>,
      <<<<"b", "p">>, "Transportation">>,
      <<<<"s", "h", "e", "l", "l">>, "Transportation">>,
      <<<<"p", "a", "l", "i", "w", "o">>, "Transportation">>,
      <<<<"m", "p", "k">>, "Transportation">>,
      <<<<"z", "t", "m">>, "Transportation">>,
      <<<<"k", "o", "l", "e", "j", "e">>, "Transportation">>,
      <<<<"p", "k", "p">>, "Transportation">>,
      <<<<"f", "l", "i", "x", "b", "u", "s">>, "Transportation">>,
      <<<<"p", "a", "r", "k", "i", "n", "g">>, "Transportation">>,
      <<<<"p", "g", "e">>, "Utilities">>,
      <<<<"t", "a", "u", "r", "o", "n">>, "Utilities">>,
      <<<<"e", "n", "e", "a">>, "Utilities">>,
      <<<<"e", "n", "e", "r", "g", "a">>, "Utilities">>,
      <<<<"w", "o", "d", "o", "c", "i", "a,", "g", "i">>, "Utilities">>,
      <<<<"w", "o", "d", "o", "c", "i", "a", "g", "i">>, "Utilities">>,
      <<<<"i", "n", "t", "e", "r", "n", "e", "t">>, "Utilities">>,
      <<<<"o", "r", "a", "n", "g", "e">>, "Utilities">>,
      <<<<"p", "l", "a", "y">>, "Utilities">>,
      <<<<"t", "-", "m", "o", "b", "i", "l", "e">>, "Utilities">>,
      <<<<"p", "l", "u", "s">>, "Utilities">>,
      <<<<"n", "e", "t", "f", "l", "i", "x">>, "Entertainment">>,
      <<<<"s", "p", "o", "t", "i", "f", "y">>, "Entertainment">>,
      <<<<"h", "b", "o">>, "Entertainment">>,
      <<<<"d", "i", "s", "n", "e", "y">>, "Entertainment">>,
      <<<<"c", "i", "n", "e", "m", "a">>, "Entertainment">>,
      <<<<"k", "i", "n", "o">>, "Entertainment">>,
      <<<<"m", "u", "l", "t", "i", "k", "i", "n", "o">>, "Entertainment">>,
      <<<<"h", "e", "l", "i", "o", "s">>, "Entertainment">>,
      <<<<"a", "l", "l", "e", "g", "r", "o">>, "Shopping">>,
      <<<<"a", "m", "a", "z", "o", "n">>, "Shopping">>,
      <<<<"z", "a", "l", "a", "n", "d", "o">>, "Shopping">>,
      <<<<"m", "e", "d", "i", "a", "m", "a", "r", "k", "t">>, "Shopping">>,
      <<<<"m", "e", "d", "i", "a", " ", "m", "a", "r", "k", "t">>, "Shopping">>,
      <<<<"r", "t", "v", " ", "e", "u", "r", "o">>, "Shopping">>,
      <<<<"i", "k", "e", "a">>, "Shopping">>,
      <<<<"d", "e", "c", "a", "t", "h", "l", "o", "n">>, "Shopping">>,
      <<<<"r", "o", "s", "s", "m", "a", "n", "n">>, "Shopping">>,
      <<<<"h", "e", "b", "e">>, "Shopping">>,
      <<<<"a", "p", "t", "e", "k", "a">>, "Healthcare">>,
      <<<<"p", "h", "a", "r", "m", "a", "c", "y">>, "Healthcare">>,
      <<<<"l", "e", "k", "a", "r", "z">>, "Healthcare">>,
      <<<<"d", "o", "c", "t", "o", "r">>, "Healthcare">>,
      <<<<"m", "e", "d", "i", "c", "o", "v", "e", "r">>, "Healthcare">>,
      <<<<"l", "u", "x", "m", "e", "d">>, "Healthcare">>,
      <<<<"e", "n", "e", "l", "-", "m", "e", "d">>, "Healthcare">>,
      <<<<"u", "b", "e", "z", "p", "i", "e", "c", "z", "e", "n", "i", "e">>, "Insurance">>,
      <<<<"p", "z", "u">>, "Insurance">>,
      <<<<"w", "a", "r", "t", "a">>, "Insurance">>,
      <<<<"e", "r", "g", "o", " ", "h", "e", "s", "t", "i", "a">>, "Insurance">>,
      <<<<"u", "c", "z", "e", "l", "n", "i", "a">>, "Education">>,
      <<<<"s", "z", "k", "o", "l/", "a">>, "Education">>,
      <<<<"k", "u", "r", "s">>, "Education">>,
      <<<<"u", "d", "e", "m", "y">>, "Education">>,
      <<<<"c", "o", "u", "r", "s", "e", "r", "a">>, "Education">>,
      <<<<"s", "u", "b", "s", "k", "r", "y", "p", "c", "j", "a">>, "Subscriptions">>,
      <<<<"s", "u", "b", "s", "c", "r", "i", "p", "t", "i", "o", "n">>, "Subscriptions">>,
      <<<<"a", "p", "p", "l", "e">>, "Subscriptions">>,
      <<<<"g", "o", "o", "g", "l", "e", " ", "s", "t", "o", "r", "a", "g", "e">>, "Subscriptions">>,
      <<<<"y", "o", "u", "t", "u", "b", "e", " ", "p", "r", "e", "m", "i", "u", "m">>, "Subscriptions">>,
      <<<<"w", "y", "n", "a", "g", "r", "o", "d", "z", "e", "n", "i", "e">>, "Salary">>,
      <<<<"p", "r", "z", "e", "l", "e", "w", " ", "z", " ", "t", "y", "t", "u", "l", "u", " ", "w", "y", "n", "a", "g", "r", "o", "d", "z", "e", "n", "i", "a">>, "Salary">>,
      <<<<"s", "a", "l", "a", "r", "y">>, "Salary">>,
      <<<<"p", "e", "n", "s", "j", "a">>, "Salary">>>>

\* A categorizer in which the last matching entry of the table decides.
detectCategory_LastMatch(description) ==
    LET lower == ToLowerCase(description)
        hits == {i \in 1..Len(CATEGORY_KEYWORDS) : Includes(lower, CATEGORY_KEYWORDS[i][1])}
    IN  IF hits = {} THEN "Other" ELSE CATEGORY_KEYWORDS[Max(hits)][2]

detectCategory(description) ==
    LET lower == ToLowerCase(description)
        hits == {i \in 1..Len(CATEGORY_KEYWORDS) : Includes(lower, CATEGORY_KEYWORDS[i][1])}
    IN  IF hits = {} THEN "Other" ELSE CATEGORY_KEYWORDS[Min(hits)][2]

\* The 0-based index of the first header equal to the first candidate that
\* any header equals, or -1.
findColumnIndex(headers, candidates) ==
    LET normalizedHeaders == [i \in 1..Len(headers) |-> Trim(ToLowerCase(headers[i]))]
        found == {c \in 1..Len(candidates) : IndexIn(normalizedHeaders, candidates[c]) # 0}
    IN  IF found = {} THEN -1 ELSE IndexIn(normalizedHeaders, candidates[Min(found)]) - 1

parsePKOAmount(raw) ==
    LET cleaned == RemoveAll(Trim(raw), Whitespace)
    IN  IF Includes(cleaned, <<",">>) /\ Includes(cleaned, <<".">>)
        THEN parseFloat(ReplaceFirst(RemoveAll(cleaned, {"."}), ",", "."))
        ELSE IF Includes(cleaned, <<",">>)
        THEN parseFloat(ReplaceFirst(cleaned, ",", "."))
        ELSE parseFloat(cleaned)

DateSeparators == {".", "-", "/"}

\* /^\d{a}[.\-/]\d{2}[.\-/]\d{c}$/ with a + c = 6
MatchesDate(s, a) ==
    /\ Len(s) = 10
    /\ \A i \in 1..10 : IF i \in {a + 1, a + 4} THEN s[i] \in DateSeparators ELSE IsDigit(s[i])

\* A normalizer that makes the separators of a day-first date '-' and leaves
\* the day first.
parseDate_KeepsOrder(raw) ==
    LET trimmed == Trim(raw)
    IN  IF MatchesDate(trimmed, 2) \/ MatchesDate(trimmed, 4)
        THEN [i \in 1..10 |-> IF trimmed[i] \in DateSeparators THEN "-" ELSE trimmed[i]]
        ELSE trimmed

parseDate(raw) ==
    LET trimmed == Trim(raw)
    IN  IF MatchesDate(trimmed, 4) /\ trimmed[5] = "-" /\ trimmed[8] = "-" THEN trimmed
        ELSE IF MatchesDate(trimmed, 2)
        THEN SubSeq(trimmed, 7, 10) \o <<"-">> \o SubSeq(trimmed, 4, 5) \o <<"-">>
             \o SubSeq(trimmed, 1, 2)
        ELSE IF MatchesDate(trimmed, 4)
        THEN SubSeq(trimmed, 1, 4) \o <<"-">> \o SubSeq(trimmed, 6, 7) \o <<"-">>
             \o SubSeq(trimmed, 9, 10)
        ELSE trimmed

Delimiters == <<",", ";", "\t", "|">>

\* The first delimiter that splits the line into the most pieces.
detectDelimiter(firstLine) ==
    LET most == Max({SplitCount(firstLine, Delimiters[i]) : i \in 1..Len(Delimiters)})
    IN  Delimiters[Min({i \in 1..Len(Delimiters) : SplitCount(firstLine, Delimiters[i]) = most})]

\* A loop in which every quote toggles the state, a doubled one twice.
RECURSIVE ScanLine_EveryQuoteToggles(_, _, _, _, _, _)
ScanLine_EveryQuoteToggles(line, delimiter, i, result, current, inQuotes) ==
    IF i > Len(line) THEN Append(result, Trim(current))
    ELSE IF line[i] = "\""
    THEN ScanLine_EveryQuoteToggles(line, delimiter, i + 1, result, current, ~inQuotes)
    ELSE IF line[i] = delimiter /\ ~inQuotes
    THEN ScanLine_EveryQuoteToggles(line, delimiter, i + 1, Append(result, Trim(current)),
                                    <<>>, inQuotes)
    ELSE ScanLine_EveryQuoteToggles(line, delimiter, i + 1, result, Append(current, line[i]),
                                    inQuotes)

\* The loop of parseCSVLine from character i on.
RECURSIVE ScanLine(_, _, _, _, _, _)
ScanLine(line, delimiter, i, result, current, inQuotes) ==
    IF i > Len(line) THEN Append(result, Trim(current))
    ELSE IF line[i] = "\""
    THEN IF inQuotes /\ CharAt(line, i + 1) = "\""
         THEN ScanLine(line, delimiter, i + 2, result, Append(current, "\""), inQuotes)
         ELSE ScanLine(line, delimiter, i + 1, result, current, ~inQuotes)
    ELSE IF line[i] = delimiter /\ ~inQuotes
    THEN ScanLine(line, delimiter, i + 1, Append(result, Trim(current)), <<>>, inQuotes)
    ELSE ScanLine(line, delimiter, i + 1, result, Append(current, line[i]), inQuotes)

parseCSVLine(line, delimiter) == ScanLine(line, delimiter, 1, <<>>, <<>>, FALSE)

ColumnMapping(date, amount, description, currency, counterparty) ==
    [date |-> date, amount |-> amount, description |-> description,
     currency |-> currency, counterparty |-> counterparty]

\* fields[index], a 0-based index: the field, or undefined.
HasField(fields, index) == index \in 0..(Len(fields) - 1)
\* fields[index] || fallback
FieldOr(fields, index, fallback) ==
    IF HasField(fields, index) /\ fields[index + 1] # <<>> THEN fields[index + 1] ELSE fallback
\* fields[index] ?? fallback
FieldOrElse(fields, index, fallback) ==
    IF HasField(fields, index) THEN fields[index + 1] ELSE fallback

ParsedBankTransaction(date, amount, description, currency, counterparty, category, raw) ==
    [date |-> date,
     amount |-> Abs(amount),
     description |-> Slice(description, 1, 200),
     currency |-> currency,
     counterparty |-> counterparty,
     suggestedCategory |-> IF IsPositive(amount) /\ category = "Other"
                           THEN "Other Income" ELSE category,
     suggestedType |-> IF IsPositive(amount) THEN "income" ELSE "expense",
     raw |-> raw]

Skipped == [skip |-> TRUE, tx |-> <<>>]
Kept(tx) == [skip |-> FALSE, tx |-> tx]

\* A default that takes the position whatever was detected.
IndexOrDefault_IgnoresDetected(index, position) == position

\* index !== -1 ? index : position
IndexOrDefault(index, position) == IF index # -1 THEN index ELSE position

\* One turn of the loop of parseCSV over the data lines.
ParseRow(fields, mapping) ==
    LET amount == parsePKOAmount(FieldOr(fields, mapping.amount, <<"0">>))
        description == FieldOr(fields, mapping.description, <<>>)
        counterparty == IF mapping.counterparty >= 0
                        THEN FieldOr(fields, mapping.counterparty, <<>>) ELSE <<>>
        fullDesc == IF counterparty # <<>>
                    THEN counterparty \o <<" ", "-", " ">> \o description ELSE description
        rawCurrency == IF mapping.currency >= 0
                       THEN ToUpperCase(Trim(FieldOr(fields, mapping.currency, <<>>)))
                       ELSE <<>>
        currency == IF rawCurrency = <<"P", "L", "N">> THEN "PLN"
                    ELSE IF rawCurrency = <<"U", "S", "D">> THEN "USD" ELSE "PLN"
    IN  IF Len(fields) < 2 THEN Skipped
        ELSE IF IsNaN(amount) \/ IsZero(amount) THEN Skipped
        ELSE Kept(ParsedBankTransaction(parseDate(FieldOr(fields, mapping.date, <<>>)),
                                        amount, fullDesc, currency, counterparty,
                                        detectCategory(fullDesc), fields))

\* What is left of a sequence of row results: the rows that were not skipped.
KeptRows(rows) ==
    LET kept == SelectSeq(rows, LAMBDA r : ~r.skip)
    IN  [i \in 1..Len(kept) |-> kept[i].tx]

ParseResult(headers, txs, autoMapped, mapping) ==
    [present |-> TRUE, headers |-> headers, transactions |-> txs,
     autoMapped |-> autoMapped, mapping |-> mapping]

parseCSV(text) ==
    LET lines == SelectSeq(SplitLines(text), LAMBDA l : Len(Trim(l)) > 0)
        delimiter == detectDelimiter(lines[1])
        headers == parseCSVLine(lines[1], delimiter)
        dateIdx == findColumnIndex(headers, PKO_COLUMNS.date)
        amountIdx == findColumnIndex(headers, PKO_COLUMNS.amount)
        descIdx == findColumnIndex(headers, PKO_COLUMNS.description)
        currencyIdx == findColumnIndex(headers, PKO_COLUMNS.currency)
        counterpartyIdx == findColumnIndex(headers, PKO_COLUMNS.counterparty)
        mapping == ColumnMapping(IndexOrDefault(dateIdx, 0), IndexOrDefault(amountIdx, 1),
                                 IndexOrDefault(descIdx, 2), currencyIdx, counterpartyIdx)
    IN  IF Len(lines) < 2
        THEN ParseResult(<<>>, <<>>, FALSE, ColumnMapping(0, 1, 2, -1, -1))
        ELSE ParseResult(headers,
                         KeptRows([i \in 1..(Len(lines) - 1) |->
                                     ParseRow(parseCSVLine(lines[i + 1], delimiter), mapping)]),
                         dateIdx # -1 /\ amountIdx # -1 /\ descIdx # -1,
                         mapping)

\* ========================================================================
\* The import wizard (pages/BankImport.tsx)
\* ========================================================================
detectCategoryFallback(description) ==
    LET lower == ToLowerCase(description)
        has(keyword) == Includes(lower, keyword)
    IN  IF has(<<"w", "y", "n", "a", "g", "r", "o", "d", "z", "e", "n", "i", "e">>) \/ has(<<"s", "a", "l", "a", "r", "y">>) \/ has(<<"p", "e", "n", "s", "j", "a">>) THEN "Salary"
        ELSE IF has(<<"b", "i", "e", "d", "r", "o", "n", "k", "a">>) \/ has(<<"l", "i", "d", "l">>) \/ has(<<"A*", "1/4", "a", "b", "k", "a">>) \/ has(<<"r", "e", "s", "t", "a", "u", "r", "a", "n", "t">>)
                \/ has(<<"m", "c", "d", "o", "n", "a", "l", "d", "s">>) \/ has(<<"k", "f", "c">>) THEN "Food"
        ELSE IF has(<<"c", "z", "y", "n", "s", "z">>) \/ has(<<"w", "y", "n", "a", "j", "e", "m">>) \/ has(<<"r", "e", "n", "t">>) \/ has(<<"h", "i", "p", "o", "t", "e", "k", "a">>)
        THEN "Housing"
        ELSE IF has(<<"u", "b", "e", "r">>) \/ has(<<"b", "o", "l", "t">>) \/ has(<<"o", "r", "l", "e", "n">>) \/ has(<<"p", "a", "l", "i", "w", "o">>)
                \/ has(<<"p", "k", "p">>) THEN "Transportation"
        ELSE IF has(<<"p", "g", "e">>) \/ has(<<"t", "a", "u", "r", "o", "n">>) \/ has(<<"i", "n", "t", "e", "r", "n", "e", "t">>) \/ has(<<"o", "r", "a", "n", "g", "e">>)
        THEN "Utilities"
        ELSE IF has(<<"n", "e", "t", "f", "l", "i", "x">>) \/ has(<<"s", "p", "o", "t", "i", "f", "y">>) \/ has(<<"k", "i", "n", "o">>) THEN "Entertainment"
        ELSE IF has(<<"a", "l", "l", "e", "g", "r", "o">>) \/ has(<<"a", "m", "a", "z", "o", "n">>) \/ has(<<"z", "a", "l", "a", "n", "d", "o">>) THEN "Shopping"
        ELSE IF has(<<"a", "p", "t", "e", "k", "a">>) \/ has(<<"m", "e", "d", "i", "c", "o", "v", "e", "r">>) \/ has(<<"l", "u", "x", "m", "e", "d">>) THEN "Healthcare"
        ELSE "Other"

parseDateFallback(raw) ==
    LET trimmed == Trim(raw)
    IN  IF MatchesDate(trimmed, 4) /\ trimmed[5] = "-" /\ trimmed[8] = "-" THEN trimmed
        ELSE IF MatchesDate(trimmed, 2)
        THEN SubSeq(trimmed, 7, 10) \o <<"-">> \o SubSeq(trimmed, 4, 5) \o <<"-">>
             \o SubSeq(trimmed, 1, 2)
        ELSE IF MatchesDate(trimmed, 4)
        THEN SubSeq(trimmed, 1, 4) \o <<"-">> \o SubSeq(trimmed, 6, 7) \o <<"-">>
             \o SubSeq(trimmed, 9, 10)
        ELSE trimmed

\* A re-map that builds on the description, date and currency derived before
\* instead of the row's raw fields.
RemapRow_FromDerived(tx, mapping) ==
    LET cleaned == RemoveAll(Trim(FieldOrElse(tx.raw, mapping.amount, <<"0">>)), Whitespace)
        amount == IF Includes(cleaned, <<",">>) /\ Includes(cleaned, <<".">>)
                  THEN parseFloat(ReplaceFirst(RemoveAll(cleaned, {"."}), ",", "."))
                  ELSE IF Includes(cleaned, <<",">>)
                  THEN parseFloat(ReplaceFirst(cleaned, ",", "."))
                  ELSE parseFloat(cleaned)
        counterparty == IF mapping.counterparty >= 0
                        THEN FieldOrElse(tx.raw, mapping.counterparty, <<>>) ELSE <<>>
        fullDesc == IF counterparty # <<>>
                    THEN counterparty \o <<" ", "-", " ">> \o tx.description ELSE tx.description
    IN  IF IsNaN(amount) \/ IsZero(amount) THEN Skipped
        ELSE Kept(ParsedBankTransaction(parseDateFallback(tx.date), amount, fullDesc,
                                        tx.currency, counterparty,
                                        detectCategoryFallback(fullDesc), tx.raw))

\* The function remapTransactions maps over the transactions of the result.
RemapRow(tx, mapping) ==
    LET raw == tx.raw
        cleaned == RemoveAll(Trim(FieldOrElse(raw, mapping.amount, <<"0">>)), Whitespace)
        amount == IF Includes(cleaned, <<",">>) /\ Includes(cleaned, <<".">>)
                  THEN parseFloat(ReplaceFirst(RemoveAll(cleaned, {"."}), ",", "."))
                  ELSE IF Includes(cleaned, <<",">>)
                  THEN parseFloat(ReplaceFirst(cleaned, ",", "."))
                  ELSE parseFloat(cleaned)
        description == FieldOrElse(raw, mapping.description, <<>>)
        counterparty == IF mapping.counterparty >= 0
                        THEN FieldOrElse(raw, mapping.counterparty, <<>>) ELSE <<>>
        fullDesc == IF counterparty # <<>>
                    THEN counterparty \o <<" ", "-", " ">> \o description ELSE description
        rawCurrency == IF mapping.currency >= 0
                       THEN ToUpperCase(Trim(FieldOrElse(raw, mapping.currency, <<>>)))
                       ELSE <<>>
        currency == IF rawCurrency = <<"P", "L", "N">> THEN "PLN"
                    ELSE IF rawCurrency = <<"U", "S", "D">> THEN "USD" ELSE "PLN"
    IN  IF IsNaN(amount) \/ IsZero(amount) THEN Skipped
        ELSE Kept(ParsedBankTransaction(parseDateFallback(FieldOrElse(raw, mapping.date, <<>>)),
                                        amount, fullDesc, currency, counterparty,
                                        detectCategoryFallback(fullDesc), raw))

remapTransactions(result, mapping) ==
    KeptRows([i \in 1..Len(result.transactions) |-> RemapRow(result.transactions[i], mapping)])

RECURSIVE StringOfChars(_)
StringOfChars(chars) ==
    IF chars = <<>> THEN "" ELSE Head(chars) \o StringOfChars(Tail(chars))

\* A number with at most two decimals, in hundredths, as the document holds it.
Hundredths(x) == IF x.e >= -2 THEN x.m * 10^(x.e + 2) ELSE x.m \div 10^(-(x.e + 2))

NoParseResult ==
    [present |-> FALSE, headers |-> <<>>, transactions |-> <<>>, autoMapped |-> FALSE,
     mapping |-> ColumnMapping(0, 1, 2, -1, -1)]
NoParseError == ""
NotCsvError == "Please select a .csv file."
EmptyFileError == "The file appears to be empty or unrecognised."
NoCount == -1
NotReading == [pending |-> FALSE, text |-> <<>>]
Reading(text) == [pending |-> TRUE, text |-> text]

File(name, text) == [name |-> name, text |-> text]

\* The files a user may drop: a PKO export (semicolons, CRLF, a quoted field, a
\* zero row), a statement of another bank with none of the headers known, two
\* with some headers known, a one-column file, a header alone, and a file that
\* is no .csv.
Files ==
    {File(<<"p", "k", "o", ".", "c", "s", "v">>,
          <<"D", "a", "t", "a", " ", "o", "p", "e", "r", "a", "c", "j", "i", ";", "K", "w", "o", "t", "a", ";", "W", "a", "l", "u", "t", "a", ";", "O", "p", "i", "s", " ", "t", "r", "a", "n", "s", "a", "k", "c", "j", "i", ";", "N", "a", "d", "a", "w", "c", "a", " ", "/", " ", "O", "d", "b", "i", "o", "r", "c", "a", "\r", "\n">>
          \o <<"1", "5", ".", "0", "1", ".", "2", "0", "2", "5", ";", "-", "5", "0", ",", "0", "0", ";", "P", "L", "N", ";", "Z", "a", "k", "u", "p", "y", ";", "B", "i", "e", "d", "r", "o", "n", "k", "a", "\r", "\n">>
          \o <<"1", "6", ".", "0", "1", ".", "2", "0", "2", "5", ";", "1", " ", "2", "3", "4", ",", "5", "6", ";", "u", "s", "d", ";", "P", "r", "z", "e", "l", "e", "w", ";", "\"", "A", "C", "M", "E", ";", " ", "I", "n", "c", "\"", "\r", "\n">>
          \o <<"1", "7", ".", "0", "1", ".", "2", "0", "2", "5", ";", "0", ",", "0", "0", ";", "P", "L", "N", ";", "N", "i", "c", ";", "N", "i", "k", "t", "\r", "\n">>),
     File(<<"b", "a", "n", "k", ".", "c", "s", "v">>,
          <<"D", "a", "t", "e", ",", "D", "e", "s", "c", "r", "i", "p", "t", "i", "o", "n", ",", "A", "m", "o", "u", "n", "t", "\n", "2", "0", "2", "5", "-", "0", "1", "-", "1", "5", ",", "A", "u", "c", "h", "a", "n", ",", "-", "5", "0", ".", "0", "0", "\n", "2", "0", "2", "5", "-", "0", "1", "-", "1", "6", ",", "S", "a", "l", "a", "r", "y", ",", "1", "0", "0", "\n">>),
     File(<<"p", "a", "r", "t", ".", "c", "s", "v">>,
          <<"K", "w", "o", "t", "a", ",", "O", "p", "i", "s", ",", "D", "a", "t", "a", "\n", "-", "2", "0", ",", "U", "b", "e", "r", " ", "E", "a", "t", "s", ",", "2", "0", "2", "5", "-", "0", "1", "-", "1", "5", "\n", "3", "5", ".", "5", ",", "7", " ", "E", "l", "e", "v", "e", "n", ",", "1", "6", "/", "0", "1", "/", "2", "0", "2", "5", "\n">>),
     File(<<"c", "p", ".", "c", "s", "v">>, <<"D", "a", "t", "a", ",", "K", "o", "n", "t", "r", "a", "h", "e", "n", "t", ",", "K", "w", "o", "t", "a", "\n", "2", "0", "2", "5", "-", "0", "1", "-", "1", "5", ",", "N", "e", "t", "f", "l", "i", "x", ",", "-", "3", "0", "\n">>),
     File(<<"O", "N", "E", ".", "C", "S", "V">>, <<"x", "\n", "5", "\n">>),
     File(<<"e", "m", "p", "t", "y", ".", "c", "s", "v">>, <<"D", "a", "t", "e", ",", "A", "m", "o", "u", "n", "t", "\n">>),
     File(<<"n", "o", "t", "e", "s", ".", "t", "x", "t">>, <<"D", "a", "t", "e", ",", "A", "m", "o", "u", "n", "t", "\n", "2", "0", "2", "5", "-", "0", "1", "-", "1", "5", ",", "5", "\n">>)}

MappingFields == {"date", "amount", "description", "currency", "counterparty"}
OptionalFields == {"currency", "counterparty"}

\* The categories a user picks in the review step.
OverrideChoices == {"Shopping"}

Indices(txs) == 0..(Len(txs) - 1)

InitialCategories(txs) == [i \in 1..Len(txs) |-> txs[i].suggestedCategory]

\* processFile, up to reader.readAsText(file).  The wizard is followed through
\* the first file it accepts: files are dropped until one has been read.
ProcessFile(file) ==
    /\ step = 1
    /\ ~reading.pending
    /\ csvText = <<>>
    /\ IF Slice(ToLowerCase(file.name), Len(file.name) - 3, Len(file.name)) # <<".", "c", "s", "v">>
       THEN /\ parseError' = NotCsvError
            /\ UNCHANGED <<fileName, reading>>
       ELSE /\ parseError' = NoParseError
            /\ fileName' = file.name
            /\ reading' = Reading(file.text)
    /\ UNCHANGED <<step, parseResult, mappingUI, categoryOverrides, selected, importedCount,
                   csvText, data, storage, nextId>>
    /\ UNCHANGED notImport

\* reader.onload
ReaderOnLoad ==
    /\ reading.pending
    /\ reading' = NotReading
    /\ LET result == parseCSV(reading.text)
       IN  IF Len(result.transactions) = 0 /\ Len(result.headers) = 0
           THEN /\ parseError' = EmptyFileError
                /\ UNCHANGED <<step, parseResult, mappingUI, categoryOverrides, selected, csvText>>
           ELSE /\ parseResult' = result
                /\ csvText' = reading.text
                /\ mappingUI' = result.mapping
                /\ categoryOverrides' = InitialCategories(result.transactions)
                /\ selected' = Indices(result.transactions)
                /\ step' = IF result.autoMapped THEN 3 ELSE 2
                /\ UNCHANGED parseError
    /\ UNCHANGED <<fileName, importedCount, data, storage, nextId>>
    /\ UNCHANGED notImport

\* One of the five selects of the mapping step.
SetMapping(field, index) ==
    /\ step = 2
    /\ parseResult.present
    /\ index \in (IF field \in OptionalFields THEN {-1} ELSE {})
                 \cup 0..(Len(parseResult.headers) - 1)
    /\ mappingUI[field] # index
    /\ mappingUI' = [mappingUI EXCEPT ![field] = index]
    /\ UNCHANGED <<step, parseResult, fileName, parseError, categoryOverrides, selected,
                   importedCount, reading, csvText, data, storage, nextId>>
    /\ UNCHANGED notImport

HandleApplyMapping ==
    /\ step = 2
    /\ parseResult.present
    /\ LET remapped == remapTransactions(parseResult, mappingUI)
       IN  /\ parseResult' = [parseResult EXCEPT !.transactions = remapped,
                                                 !.autoMapped = FALSE,
                                                 !.mapping = mappingUI]
           /\ categoryOverrides' = InitialCategories(remapped)
           /\ selected' = Indices(remapped)
    /\ step' = 3
    /\ UNCHANGED <<fileName, parseError, mappingUI, importedCount, reading, csvText,
                   data, storage, nextId>>
    /\ UNCHANGED notImport

ToggleSelect(i) ==
    /\ step = 3
    /\ i \in Indices(parseResult.transactions)
    /\ selected' = IF i \in selected THEN selected \ {i} ELSE selected \cup {i}
    /\ UNCHANGED <<step, parseResult, fileName, parseError, mappingUI, categoryOverrides,
                   importedCount, reading, csvText, data, storage, nextId>>
    /\ UNCHANGED notImport

SelectAll ==
    /\ step = 3
    /\ parseResult.present
    /\ selected' = Indices(parseResult.transactions)
    /\ UNCHANGED <<step, parseResult, fileName, parseError, mappingUI, categoryOverrides,
                   importedCount, reading, csvText, data, storage, nextId>>
    /\ UNCHANGED notImport

DeselectAll ==
    /\ step = 3
    /\ selected' = {}
    /\ UNCHANGED <<step, parseResult, fileName, parseError, mappingUI, categoryOverrides,
                   importedCount, reading, csvText, data, storage, nextId>>
    /\ UNCHANGED notImport

\* The category select of row i in the review step.
SetCategory(i, category) ==
    /\ step = 3
    /\ i \in Indices(parseResult.transactions)
    /\ categoryOverrides' = [categoryOverrides EXCEPT ![i + 1] = category]
    /\ UNCHANGED <<step, parseResult, fileName, parseError, mappingUI, selected,
                   importedCount, reading, csvText, data, storage, nextId>>
    /\ UNCHANGED notImport

\* The record handleImport passes to onAdd for row i.
NewTx(i) ==
    LET tx == parseResult.transactions[i + 1]
        base == JsObj(<<Field("type", JsStr(tx.suggestedType)),
                        Field("amount", JsNum(Hundredths(tx.amount))),
                        Field("currency", JsStr(tx.currency)),
                        Field("category", JsStr(categoryOverrides[i + 1])),
                        Field("description", JsStr(StringOfChars(tx.description))),
                        Field("date", JsStr(StringOfChars(tx.date)))>>)
    IN  IF tx.currency = "PLN"
        THEN Put(base, "exchangeRateAtTime", Get(SettingsOf(data), "exchangeRate"))
        ELSE base

\* A loop that skipped the test of the selection.
RECURSIVE AddSelected_EveryRow(_, _, _)
AddSelected_EveryRow(doc, i, id) ==
    IF i >= Len(parseResult.transactions) THEN doc
    ELSE AddSelected_EveryRow(addTransaction(doc, NewTx(i), Uuid(id)), i + 1, id + 1)

\* onAdd for the selected rows from row i on, in order.
RECURSIVE AddSelected(_, _, _)
AddSelected(doc, i, id) ==
    IF i >= Len(parseResult.transactions) THEN doc
    ELSE IF i \in selected
    THEN AddSelected(addTransaction(doc, NewTx(i), Uuid(id)), i + 1, id + 1)
    ELSE AddSelected(doc, i + 1, id)

\* handleImport; its button is disabled while no row is selected.
HandleImport ==
    /\ step = 3
    /\ parseResult.present
    /\ selected # {}
    /\ nextId + Cardinality(selected) - 1 <= MaxIds
    /\ IsArray(Get(data, "transactions"))
    /\ Commit(AddSelected(data, 0, nextId))
    /\ nextId' = nextId + Cardinality(selected)
    /\ importedCount' = Cardinality(selected)
    /\ step' = 1
    /\ parseResult' = NoParseResult
    /\ fileName' = <<>>
    /\ selected' = {}
    /\ categoryOverrides' = <<>>
    /\ UNCHANGED <<parseError, mappingUI, reading, csvText>>
    /\ UNCHANGED notImport

HandleCancel ==
    /\ step \in {2, 3}
    /\ step' = 1
    /\ parseResult' = NoParseResult
    /\ fileName' = <<>>
    /\ parseError' = NoParseError
    /\ selected' = {}
    /\ categoryOverrides' = <<>>
    /\ importedCount' = NoCount
    /\ UNCHANGED <<mappingUI, reading, csvText, data, storage, nextId>>
    /\ UNCHANGED notImport

ImportIdle ==
    /\ step = 1
    /\ parseResult = NoParseResult
    /\ fileName = <<>>
    /\ parseError = NoParseError
    /\ mappingUI = ColumnMapping(0, 1, 2, -1, -1)
    /\ categoryOverrides = <<>>
    /\ selected = {}
    /\ importedCount = NoCount
    /\ reading = NotReading
    /\ csvText = <<>>

ImportInit == StoreInit /\ ImportIdle

ImportNext ==
    \/ \E file \in Files : ProcessFile(file)
    \/ ReaderOnLoad
    \/ \E field \in MappingFields, index \in -1..(Len(parseResult.headers) - 1) :
          SetMapping(field, index)
    \/ HandleApplyMapping
    \/ \E i \in Indices(parseResult.transactions) : ToggleSelect(i)
    \/ SelectAll
    \/ DeselectAll
    \/ \E i \in Indices(parseResult.transactions), category \in OverrideChoices :
          SetCategory(i, category)
    \/ HandleImport
    \/ HandleCancel

\* ========================================================================
\* The importer's functions called on their own
\* ========================================================================
\* Each behaviour is one call of one function: nothing has been called yet.
NoParsing == [fn |-> "none"]

ParsingIdle == parsing = NoParsing

\* ---- parseDate ----
DateDays == {<<"1", "5">>, <<"0", "1">>}
DateMonth == <<"0", "1">>
DateYear == <<"2", "0", "2", "5">>

\* What may surround a cell's text: nothing, a space before, a space and a line
\* end after.
Paddings == {<<<<>>, <<>>>>, <<<<" ">>, <<>>>>, <<<<>>, <<" ", "\n">>>>}

\* Dates written day first and year first with every pair of separators, with
\* and without white space around them, and strings that are no such date: too
\* short, too long, with a letter, with other separators, and dates that no
\* calendar has.
DateStrings ==
    {pad[1] \o day \o <<s1>> \o DateMonth \o <<s2>> \o DateYear \o pad[2] :
        pad \in Paddings, day \in DateDays, s1 \in DateSeparators, s2 \in DateSeparators}
    \cup
    {pad[1] \o DateYear \o <<s1>> \o DateMonth \o <<s2>> \o day \o pad[2] :
        pad \in Paddings, day \in DateDays, s1 \in DateSeparators, s2 \in DateSeparators}
    \cup
    {<<>>,
     <<" ", " ">>,
     <<"a", "b", "c">>,
     <<" ", "h", "e", "l", "l", "o", " ">>,
     <<"2", "0", "2", "5", "-", "1", "-", "5">>,
     <<"1", "5", ".", "0", "1", ".", "2", "5">>,
     <<"2", "0", "2", "5", "0", "1", "1", "5">>,
     <<"2", "0", "2", "5", "-", "0", "1", "-", "1", "5", "5">>,
     <<"1", "5", ".", "0", "1", ".", "2", "0", "2", "5", "x">>,
     <<"2", "0", "2", "5", " ", "0", "1", " ", "1", "5">>,
     <<"1", "5", ",", "0", "1", ",", "2", "0", "2", "5">>,
     <<"2", "0", "2", "5", "-", "0", "1", "-", "1", "5", "T", "1", "0", ":", "0", "0">>,
     <<"1", "a", ".", "0", "1", ".", "2", "0", "2", "5">>,
     <<"9", "9", ".", "9", "9", ".", "9", "9", "9", "9">>,
     <<"0", "0", "0", "0", "-", "0", "0", "-", "0", "0">>,
     <<"\t", "2", "0", "2", "5", "/", "1", "2", "/", "3", "1", "\r", "\n">>}

CallParseDate(raw) ==
    /\ ParsingIdle
    /\ parsing' = [fn |-> "parseDate", raw |-> raw, result |-> parseDate(raw)]
    /\ UNCHANGED notParsing

\* ---- parsePKOAmount ----
\* An amount as it is written: its sign, its integer digits in groups of three
\* from the right, its decimals (none for a whole amount).
Written(negative, groups, decimals) ==
    [negative |-> negative, groups |-> groups, decimals |-> decimals]

WrittenAmounts ==
    {Written(negative, groups, decimals) :
        negative \in BOOLEAN,
        groups \in {<<<<"5", "0">>>>,
                    <<<<"1">>, <<"2", "3", "4">>>>,
                    <<<<"1">>, <<"2", "3", "4">>, <<"5", "6", "7">>>>},
        decimals \in {<<>>, <<"5">>, <<"5", "6">>, <<"0", "0">>}}

\* The conventions an amount is written in: decimal comma (1234,56), decimal
\* comma with a space (1 234,56) or a dot (1.234,56) between the thousands,
\* decimal point (1234.56), decimal point with a comma between the thousands
\* (1,234.56).
Conventions == {"comma", "spaceComma", "dotComma", "dot", "commaDot"}

ThousandsMark(convention) ==
    CASE convention = "spaceComma" -> <<" ">>
      [] convention = "dotComma" -> <<".">>
      [] convention = "commaDot" -> <<",">>
      [] OTHER -> <<>>

DecimalMark(convention) ==
    IF convention \in {"dot", "commaDot"} THEN <<".">> ELSE <<",">>

RECURSIVE JoinGroups(_, _)
JoinGroups(groups, mark) ==
    IF Len(groups) = 1 THEN groups[1]
    ELSE groups[1] \o mark \o JoinGroups(Tail(groups), mark)

\* The text of the amount in the convention.
WriteAmount(w, convention) ==
    (IF w.negative THEN <<"-">> ELSE <<>>)
    \o JoinGroups(w.groups, ThousandsMark(convention))
    \o (IF w.decimals = <<>> THEN <<>> ELSE DecimalMark(convention) \o w.decimals)

\* The number the amount is.
ValueOf(w) ==
    Finite((IF w.negative THEN -1 ELSE 1) * DigitsValue(JoinGroups(w.groups, <<>>) \o w.decimals),
           -Len(w.decimals))

CallParsePKOAmount(w, convention) ==
    /\ ParsingIdle
    /\ parsing' = [fn |-> "parsePKOAmount", written |-> w, convention |-> convention,
                   raw |-> WriteAmount(w, convention),
                   result |-> parsePKOAmount(WriteAmount(w, convention))]
    /\ UNCHANGED notParsing

\* ---- detectCategory ----
\* The places in the table of czynsz, biedronka, lidl, uber eats, bolt food,
\* uber, bolt, kino, multikino, wynagrodzenie and pensja.
SampledKeywords == {1, 9, 10, 20, 22, 24, 25, 52, 53, 86, 89}

\* Descriptions that hold two keywords, the first as the table has it and the
\* second in capitals, in both orders, and descriptions that hold none or one:
\* empty, of the tests, with a capital letter outside ASCII.
Descriptions ==
    {CATEGORY_KEYWORDS[i][1] \o <<" ">> \o ToUpperCase(CATEGORY_KEYWORDS[j][1]) :
        i \in SampledKeywords, j \in SampledKeywords}
    \cup
    {<<>>,
     <<"R", "a", "n", "d", "o", "m", " ", "p", "u", "r", "c", "h", "a", "s", "e", " ", "X", "Y", "Z">>,
     <<"P", "r", "z", "e", "l", "e", "w", " ", "o", "d", " ", "z", "n", "a", "j", "o", "m", "e", "g", "o">>,
     <<"N", "E", "T", "F", "L", "I", "X", ".", "C", "O", "M">>,
     <<"Z.", "A", "B", "K", "A", " ", "Z", "1", "2">>}

CallDetectCategory(description) ==
    /\ ParsingIdle
    /\ parsing' = [fn |-> "detectCategory", raw |-> description,
                   result |-> detectCategory(description)]
    /\ UNCHANGED notParsing

\* ---- parseCSVLine ----
\* Every line of at most MaxLine characters out of a letter, a comma, a quote
\* and a space, split at commas and, the comma then being a character like any
\* other, at semicolons.
LineCharacters == {"a", ",", "\"", " "}
Lines == SeqsUpTo(LineCharacters, MaxLine)
LineDelimiters == {",", ";"}

CallParseCSVLine(line, delimiter) ==
    /\ ParsingIdle
    /\ parsing' = [fn |-> "parseCSVLine", raw |-> line, delimiter |-> delimiter,
                   result |-> parseCSVLine(line, delimiter)]
    /\ UNCHANGED notParsing

ParseNext ==
    \/ \E raw \in DateStrings : CallParseDate(raw)
    \/ \E line \in Lines, delimiter \in LineDelimiters : CallParseCSVLine(line, delimiter)
    \/ \E description \in Descriptions : CallDetectCategory(description)
    \/ \E w \in WrittenAmounts, convention \in Conventions : CallParsePKOAmount(w, convention)

\* ========================================================================
\* The add-transaction form (pages/Transactions.tsx)
\* ========================================================================
\* The state of the form when Save is pressed: the amount and the exchange
\* rate are the texts of their fields.
Form(amount, currency, rate, date) ==
    [type |-> "expense", amount |-> amount, currency |-> currency, category |-> "Food",
     description |-> "Lunch", date |-> date, exchangeRate |-> rate]

AmountTexts == {<<"1", "2", ".", "5", "0">>, <<"0">>, <<"-", "5">>, <<"a", "b", "c">>, <<>>}
RateTexts == {<<"4", ".", "2">>, <<"0">>, <<>>}
DateTexts == {<<"2", "0", "2", "5", "-", "0", "1", "-", "0", "5">>, <<>>}

Forms ==
    {Form(amount, currency, rate, date) :
        amount \in AmountTexts, currency \in Currencies, rate \in RateTexts, date \in DateTexts}

\* handleSave: the first two lines, which leave without saving.
FormRejected(form) ==
    \/ form.amount = <<>>
    \/ IsNaN(parseFloat(form.amount))
    \/ ~IsPositive(parseFloat(form.amount))
    \/ form.date = <<>>

RateAccepted_AnyCurrency(form) ==
    /\ ~IsNaN(parseFloat(form.exchangeRate))
    /\ IsPositive(parseFloat(form.exchangeRate))

\* handleSave: the rate of the form is attached.
RateAccepted(form) ==
    /\ form.currency = "PLN"
    /\ ~IsNaN(parseFloat(form.exchangeRate))
    /\ IsPositive(parseFloat(form.exchangeRate))

\* handleSave: the record passed to onAdd.
FormTx(form) ==
    LET tx == JsObj(<<Field("type", JsStr(form.type)),
                      Field("amount", JsNum(Hundredths(parseFloat(form.amount)))),
                      Field("currency", JsStr(form.currency)),
                      Field("category", JsStr(form.category)),
                      Field("description", JsStr(form.description)),
                      Field("date", JsStr(StringOfChars(form.date)))>>)
    IN  IF RateAccepted(form)
        THEN Put(tx, "exchangeRateAtTime", JsNum(Hundredths(parseFloat(form.exchangeRate))))
        ELSE tx

\* Transactions.handleSave, through App.handleAddTransaction.
HandleSave(form) ==
    IF FormRejected(form)
    THEN UNCHANGED vars
    ELSE HandleAddTransaction(FormTx(form))

\* The statement a user imports while also entering transactions by hand.
StatementFiles == {f \in Files : f.name = <<"p", "k", "o", ".", "c", "s", "v">>}

\* Manual entry and bank import side by side, with the settings page changing
\* the global rate in between.
EntryNext ==
    \/ \E form \in Forms : HandleSave(form)
    \/ \E file \in StatementFiles : ProcessFile(file)
    \/ ReaderOnLoad
    \/ \E i \in Indices(parseResult.transactions) : ToggleSelect(i)
    \/ HandleImport
    \/ \E settings \in SettingsInputs : HandleUpdateSettings(settings)

\* ------------------------------------------------------------------------
\* Properties of the import wizard
\* ------------------------------------------------------------------------
\* The fields of every data line of a CSV text, blank lines left out.
DataRows(text) ==
    LET lines == SelectSeq(SplitLines(text), LAMBDA l : Len(Trim(l)) > 0)
    IN  IF Len(lines) < 2 THEN <<>>
        ELSE [i \in 1..(Len(lines) - 1) |->
                parseCSVLine(lines[i + 1], detectDelimiter(lines[1]))]

\* The user has applied a mapping to the file that was read.
MappingApplied == step = 3 /\ parseResult.present /\ ~parseResult.autoMapped

RawRows(txs) == [i \in 1..Len(txs) |-> txs[i].raw]

\* C3: after the user applies a mapping M, the rows of the list are the data
\* rows of the uploaded file that are valid under M (at least two fields, an
\* amount under M that is a number other than zero), whatever the mapping in
\* effect before: a row skipped under the earlier mapping is back if M makes it
\* valid.
C3_RemapCoversEveryRow ==
    MappingApplied =>
        RawRows(parseResult.transactions)
            = SelectSeq(DataRows(csvText), LAMBDA row : ~ParseRow(row, parseResult.mapping).skip)

\* C4: when a mapping is applied, remapTransactions normalizes every row as
\* parseCSV does under that mapping: the same skip decision, and for a row kept
\* the same date, amount, description, currency, counterparty, suggested
\* category and suggested type.
C4_RemapNormalizesLikeParse ==
    [][(step = 2 /\ step' = 3) =>
          \A i \in 1..Len(parseResult.transactions) :
              RemapRow(parseResult.transactions[i], mappingUI)
                  = ParseRow(parseResult.transactions[i].raw, mappingUI)]_vars

\* C5: applying to a re-mapped result the mapping it was re-mapped with gives
\* the same list: the same rows in the same order with the same derived fields.
C5_RemapIdempotent ==
    MappingApplied =>
        remapTransactions(parseResult, parseResult.mapping) = parseResult.transactions

\* A re-mapped list that lost a row of the file and whose row has a counterparty
\* in front of its description.
C5_Witness ==
    /\ MappingApplied
    /\ Len(DataRows(csvText)) = 2
    /\ Len(parseResult.transactions) = 1
    /\ parseResult.transactions[1].counterparty # <<>>
    /\ parseResult.mapping.description >= 0

Recognized(headers, candidates) ==
    \E i \in 1..Len(headers), c \in 1..Len(candidates) :
        Trim(ToLowerCase(headers[i])) = candidates[c]

DefaultsAreZeroOneTwo(result) ==
    ~result.autoMapped =>
        /\ result.mapping.date = 0
        /\ result.mapping.amount = 1
        /\ result.mapping.description = 2

DefaultOrRecognized(result, field, position) ==
    IF Recognized(result.headers, PKO_COLUMNS[field])
    THEN /\ result.mapping[field] \in 0..(Len(result.headers) - 1)
         /\ \E c \in 1..Len(PKO_COLUMNS[field]) :
               Trim(ToLowerCase(result.headers[result.mapping[field] + 1]))
                   = PKO_COLUMNS[field][c]
    ELSE result.mapping[field] = position

DefaultsPerField(result) ==
    ~result.autoMapped =>
        /\ DefaultOrRecognized(result, "date", 0)
        /\ DefaultOrRecognized(result, "amount", 1)
        /\ DefaultOrRecognized(result, "description", 2)

MappedAmount(raw, mapping) == parsePKOAmount(FieldOr(raw, mapping.amount, <<"0">>))

\* C12: every transaction of a parse result, whether parseCSV or a re-map
\* produced it, has an amount above zero, and the amount its row has under the
\* result's mapping is a number other than zero.
C12_AmountsPositive ==
    parseResult.present =>
        \A i \in 1..Len(parseResult.transactions) :
            /\ IsPositive(parseResult.transactions[i].amount)
            /\ ~IsNaN(MappedAmount(parseResult.transactions[i].raw, parseResult.mapping))
            /\ ~(MappedAmount(parseResult.transactions[i].raw, parseResult.mapping)
                    = Finite(0, 0))

\* A file with a zero-amount row has been parsed: the row is not in the result,
\* the other rows are.
C12_Witness ==
    /\ parseResult.present
    /\ parseResult = parseCSV(csvText)
    /\ Len(parseResult.transactions) > 0
    /\ \E r \in 1..Len(DataRows(csvText)) :
          MappedAmount(DataRows(csvText)[r], parseResult.mapping) = Finite(0, 0)

IsNegative(x) == x.k # "nan" /\ x.m < 0

\* The signed amount of the row behind the i-th transaction of the result.
RowAmount(i) == MappedAmount(parseResult.transactions[i].raw, parseResult.mapping)

\* C13: in every parse result a transaction is an expense exactly when the
\* amount of its row under the mapping is negative and an income exactly when
\* it is positive, and its amount is the absolute value of that amount.
C13_SignGivesType ==
    parseResult.present =>
        \A i \in 1..Len(parseResult.transactions) :
            /\ parseResult.transactions[i].suggestedType = "expense" <=> IsNegative(RowAmount(i))
            /\ parseResult.transactions[i].suggestedType = "income"
                 <=> (~IsNaN(RowAmount(i)) /\ RowAmount(i).m > 0)
            /\ parseResult.transactions[i].amount
                 = (IF IsNegative(RowAmount(i))
                    THEN Finite(-RowAmount(i).m, RowAmount(i).e)
                    ELSE RowAmount(i))

\* parseCSV has produced a result with a negative row, now an expense, and a
\* positive row, now an income.
C13_Witness ==
    /\ parseResult.present
    /\ parseResult = parseCSV(csvText)
    /\ \E i, j \in 1..Len(parseResult.transactions) :
          /\ IsNegative(RowAmount(i))
          /\ parseResult.transactions[i].suggestedType = "expense"
          /\ RowAmount(j).m > 0
          /\ parseResult.transactions[j].suggestedType = "income"

\* ------------------------------------------------------------------------
\* Properties of the transactions entered by hand and imported
\* ------------------------------------------------------------------------
\* A transaction of the document has an amount above zero and a rate only if
\* it is in PLN.
WellFormedTransaction(t) ==
    /\ Get(t, "amount").k = "number"
    /\ Get(t, "amount").n > 0
    /\ HasKey(t, "exchangeRateAtTime") => Get(t, "currency") = JsStr("PLN")
    /\ Get(t, "currency") = JsStr("USD") => ~HasKey(t, "exchangeRateAtTime")

\* C14: the document starts without transactions, and after every form save
\* and every import confirmation each transaction in it has amount > 0 and
\* carries exchangeRateAtTime only if its currency is PLN, never if it is USD;
\* each PLN transaction an import confirmation appends carries the
\* settings.exchangeRate the document had when the import was confirmed.
C14_AddedTransactionsWellFormed ==
    [][data' # data =>
        /\ \A i \in 1..Len(Get(data', "transactions").e) :
              WellFormedTransaction(Get(data', "transactions").e[i])
        /\ (step = 3 /\ step' = 1) =>
              \A i \in (Len(Records("transactions")) + 1)..Len(Get(data', "transactions").e) :
                  Get(Get(data', "transactions").e[i], "currency") = JsStr("PLN") =>
                      /\ HasKey(Get(data', "transactions").e[i], "exchangeRateAtTime")
                      /\ Get(Get(data', "transactions").e[i], "exchangeRateAtTime")
                            = Get(SettingsOf(data), "exchangeRate")]_vars

\* One PLN row of a statement was imported after the global rate had been set
\* to 3.90, and a PLN transaction was entered by hand at 4.20: each carries its
\* own rate.
C14_Witness ==
    /\ importedCount = 1
    /\ Len(Records("transactions")) = 2
    /\ \E i, j \in 1..2 :
          /\ Get(Records("transactions")[i], "description") = JsStr("Lunch")
          /\ Get(Records("transactions")[i], "exchangeRateAtTime") = JsNum(420)
          /\ Get(Records("transactions")[j], "description") # JsStr("Lunch")
          /\ Get(Records("transactions")[j], "currency") = JsStr("PLN")
          /\ Get(Records("transactions")[j], "exchangeRateAtTime") = JsNum(390)
          /\ Get(SettingsOf(data), "exchangeRate") = JsNum(390)

\* ------------------------------------------------------------------------
\* Properties of the import wizard
\* ------------------------------------------------------------------------
RECURSIVE Ascending(_)
Ascending(S) ==
    IF S = {} THEN <<>>
    ELSE LET least == CHOOSE x \in S : \A y \in S : x <= y
         IN  <<least>> \o Ascending(S \ {least})

WizardCleared ==
    /\ step' = 1
    /\ parseResult' = NoParseResult
    /\ selected' = {}
    /\ categoryOverrides' = <<>>

\* The document gained one transaction for each selected row, in row order,
\* after the ones it had, and the count reported is the size of the selection.
ImportedSelectedRows ==
    LET rows == Ascending(selected)
        old == Get(data, "transactions").e
        new == Get(data', "transactions").e
    IN  /\ importedCount' = Cardinality(selected)
        /\ Len(new) = Len(old) + Cardinality(selected)
        /\ \A k \in 1..Len(old) : new[k] = old[k]
        /\ \A k \in 1..Len(rows) :
              LET tx == parseResult.transactions[rows[k] + 1]
                  rec == new[Len(old) + k]
              IN  /\ Get(rec, "description") = JsStr(StringOfChars(tx.description))
                  /\ Get(rec, "date") = JsStr(StringOfChars(tx.date))
                  /\ Get(rec, "amount") = JsNum(Hundredths(tx.amount))
                  /\ Get(rec, "type") = JsStr(tx.suggestedType)
                  /\ Get(rec, "category") = JsStr(categoryOverrides[rows[k] + 1])
        /\ \A j, k \in (Len(old) + 1)..Len(new) :
              Get(new[j], "id") = Get(new[k], "id") => j = k
        /\ OnlyCollection(data, data', "transactions")

LeavesReview == step \in {2, 3} /\ step' = 1

ConfirmedOrCancelled ==
    /\ WizardCleared
    /\ IF importedCount' # NoCount
       THEN ImportedSelectedRows
       ELSE data' = data /\ storage' = storage

SelectionWithinRows ==
    /\ selected \subseteq Indices(parseResult.transactions)
    /\ step \in {2, 3} => parseResult.present

\* C30: in the import wizard the selection holds only indices of the parsed
\* list and steps 2 and 3 have a parse result; confirming adds one transaction
\* per selected row and none for the others, reports the size of the selection
\* and clears the wizard; cancelling adds nothing and clears the wizard; nothing
\* else in the wizard changes the document.
C30_WizardImportsTheSelection ==
    /\ []SelectionWithinRows
    /\ [][LeavesReview => ConfirmedOrCancelled]_vars
    /\ [][data' # data => (LeavesReview /\ importedCount' # NoCount)]_vars

\* One row of two was imported from a file that went straight to the review.
C30_Witness ==
    /\ step = 1
    /\ importedCount = 1
    /\ Len(Get(data, "transactions").e) = 1
    /\ parseCSV(csvText).autoMapped
    /\ Len(parseCSV(csvText).transactions) >= 2

\* A file was read and the wizard was cancelled.
C30_Cancelled ==
    /\ step = 1
    /\ csvText # <<>>
    /\ importedCount = NoCount
    /\ parseResult = NoParseResult
    /\ Get(data, "transactions").e = <<>>

\* ------------------------------------------------------------------------
\* Properties of the importer's functions
\* ------------------------------------------------------------------------
\* The string with each digit written d, each date separator s, anything else x.
Shape(str) ==
    [i \in 1..Len(str) |-> IF IsDigit(str[i]) THEN "d"
                           ELSE IF str[i] \in DateSeparators THEN "s" ELSE "x"]

DayFirstShape == <<"d", "d", "s", "d", "d", "s", "d", "d", "d", "d">>
YearFirstShape == <<"d", "d", "d", "d", "s", "d", "d", "s", "d", "d">>

IsCanonicalDate(str) == Shape(str) = YearFirstShape /\ str[5] = "-" /\ str[8] = "-"

\* year-month-day from the three runs of digits.
Dashed(year, month, day) == year \o <<"-">> \o month \o <<"-">> \o day

DateNormalized(raw, trimmed, result) ==
    /\ IsCanonicalDate(trimmed) => result = trimmed
    /\ Shape(trimmed) = DayFirstShape =>
          result = Dashed(Slice(trimmed, 7, 10), Slice(trimmed, 4, 5), Slice(trimmed, 1, 2))
    /\ Shape(trimmed) = YearFirstShape =>
          result = Dashed(Slice(trimmed, 1, 4), Slice(trimmed, 6, 7), Slice(trimmed, 9, 10))
    /\ Shape(trimmed) \notin {DayFirstShape, YearFirstShape} => result = trimmed
    /\ Shape(trimmed) \in {DayFirstShape, YearFirstShape} => IsCanonicalDate(result)

\* C21: parseDate is idempotent: a canonical YYYY-MM-DD comes back unchanged, a
\* day-first date with '.', '-' or '/' comes back as YYYY-MM-DD, a year-first
\* date has its separators made '-', and any other string comes back trimmed
\* and otherwise unchanged; parsing the result again gives the result.
C21_ParseDateIdempotent ==
    parsing.fn = "parseDate" =>
        /\ DateNormalized(parsing.raw, Trim(parsing.raw), parsing.result)
        /\ parseDate(parsing.result) = parsing.result

\* " 15/01.2025" was rearranged to "2025-01-15".
C21_Witness ==
    /\ parsing.fn = "parseDate"
    /\ parsing.raw = <<" ", "1", "5", "/", "0", "1", ".", "2", "0", "2", "5">>
    /\ parsing.result = <<"2", "0", "2", "5", "-", "0", "1", "-", "1", "5">>

\* C22: the amount normalizer recovers the number an amount string stands for
\* whatever the convention it is written in (decimal comma, decimal point,
\* thousands separated by a space, a dot or a comma), sign included.
C22_SameValueInEveryConvention ==
    parsing.fn = "parsePKOAmount" => parsing.result = ValueOf(parsing.written)

\* The same for the amounts that carry decimals, written with a decimal comma
\* or a decimal point and no comma between the thousands.
C22_DecimalFormsAgree ==
    (/\ parsing.fn = "parsePKOAmount"
     /\ parsing.written.decimals # <<>>
     /\ parsing.convention # "commaDot") => parsing.result = ValueOf(parsing.written)

\* The category is one of the enumeration of the type.
CategoryOfType(category, type) ==
    IF type = "income"
    THEN \E i \in 1..Len(INCOME_CATEGORIES) : INCOME_CATEGORIES[i] = category
    ELSE \E i \in 1..Len(EXPENSE_CATEGORIES) : EXPENSE_CATEGORIES[i] = category

\* C27: every parsed bank transaction, from parseCSV or from a re-map, has a
\* suggestedCategory of the enumeration of its suggestedType: an income row
\* carries no expense category and an expense row no income category.
C27_CategoryOfItsType ==
    parseResult.present =>
        \A i \in 1..Len(parseResult.transactions) :
            CategoryOfType(parseResult.transactions[i].suggestedCategory,
                           parseResult.transactions[i].suggestedType)

\* The keyword at place i of the table is part of the text.
KeywordIn(i, lower) == Includes(lower, CATEGORY_KEYWORDS[i][1])

\* C24: the categorizer returns the category of the first entry of the keyword
\* table, in table order, whose keyword is part of the lower-cased description,
\* and Other when no keyword is; of several matching entries the one listed
\* earlier decides, wherever the keywords stand in the description.
C24_FirstKeywordInTableOrderWins ==
    parsing.fn = "detectCategory" =>
        \/ /\ \A i \in 1..Len(CATEGORY_KEYWORDS) : ~KeywordIn(i, ToLowerCase(parsing.raw))
           /\ parsing.result = "Other"
        \/ \E i \in 1..Len(CATEGORY_KEYWORDS) :
              /\ KeywordIn(i, ToLowerCase(parsing.raw))
              /\ \A j \in 1..(i - 1) : ~KeywordIn(j, ToLowerCase(parsing.raw))
              /\ parsing.result = CATEGORY_KEYWORDS[i][2]

\* "uber UBER EATS" holds uber and, later in the text, uber eats, which the
\* table lists first: the category is Food.
C24_Witness ==
    /\ parsing.fn = "detectCategory"
    /\ parsing.raw = <<"u", "b", "e", "r", " ", "U", "B", "E", "R", " ", "E", "A", "T", "S">>
    /\ CATEGORY_KEYWORDS[20] = <<<<"u", "b", "e", "r", " ", "e", "a", "t", "s">>, "Food">>
    /\ CATEGORY_KEYWORDS[24] = <<<<"u", "b", "e", "r">>, "Transportation">>
    /\ parsing.result = "Food"

\* What the two-state machine does with each character of the line from
\* position i on, read in the state inQuotes: "split" at a delimiter outside
\* quotes, "literal" and "skipped" for the two quotes of a doubled quote inside
\* quotes, "toggle" for any other quote, "keep" for the rest.
RECURSIVE Roles(_, _, _, _)
Roles(line, delimiter, i, inQuotes) ==
    IF i > Len(line) THEN <<>>
    ELSE IF line[i] = "\"" /\ inQuotes /\ CharAt(line, i + 1) = "\""
    THEN <<"literal", "skipped">> \o Roles(line, delimiter, i + 2, inQuotes)
    ELSE IF line[i] = "\"" THEN <<"toggle">> \o Roles(line, delimiter, i + 1, ~inQuotes)
    ELSE IF line[i] = delimiter /\ ~inQuotes
    THEN <<"split">> \o Roles(line, delimiter, i + 1, inQuotes)
    ELSE <<"keep">> \o Roles(line, delimiter, i + 1, inQuotes)

\* The positions at which the line is split, with its two ends.
Cuts(line, roles) == {0, Len(line) + 1} \cup {i \in 1..Len(line) : roles[i] = "split"}

\* The characters emitted between two cuts next to each other.
Emitted(line, roles, from, to) ==
    LET kept == SelectSeq([i \in 1..Len(line) |-> i],
                          LAMBDA i : from < i /\ i < to /\ roles[i] \in {"keep", "literal"})
    IN  [k \in 1..Len(kept) |-> line[kept[k]]]

FieldsFollow(line, roles, cuts, result) ==
    /\ Len(result) = Cardinality(cuts) - 1
    /\ \A from \in cuts, to \in cuts :
          (from < to /\ \A c \in cuts : ~(from < c /\ c < to)) =>
              result[Cardinality({c \in cuts : c <= from})] = Trim(Emitted(line, roles, from, to))

\* C25: parseCSVLine splits only at the delimiters seen outside quotes, so the
\* fields are one more than those; a delimiter inside quotes stays in its
\* field, a doubled quote inside quotes gives one quote and leaves the state, any
\* other quote toggles the state and gives nothing, and each field is trimmed.
C25_SplitsOutsideQuotesOnly ==
    parsing.fn = "parseCSVLine" =>
        FieldsFollow(parsing.raw,
                     Roles(parsing.raw, parsing.delimiter, 1, FALSE),
                     Cuts(parsing.raw, Roles(parsing.raw, parsing.delimiter, 1, FALSE)),
                     parsing.result)

\* The line "","" a : the first field is a quoted comma between two quotes
\* that toggle, the second follows the comma outside.
C25_Witness ==
    /\ parsing.fn = "parseCSVLine"
    /\ parsing.raw = <<"\"", ",", "\"", ",", "a">>
    /\ parsing.delimiter = ","
    /\ parsing.result = <<<<",">>, <<"a">>>>

\* The line """"a: inside quotes a doubled quote gives one quote.
C25_DoubledQuoteSeen ==
    /\ parsing.fn = "parseCSVLine"
    /\ parsing.raw = <<"\"", "\"", "\"", "a">>
    /\ parsing.result = <<<<"\"", "a">>>>

\* ========================================================================
\* Specifications
\* ========================================================================
\* The aggregation engine applied to every transaction list of the pool.
InitAdvisor == AdvisorInit /\ StoreIdle /\ RateIdle /\ ImportIdle /\ ParsingIdle

SpecAdvisor == InitAdvisor /\ [][AdvisorNext]_vars

\* The application shell over the document store.
InitStore == StoreInit /\ AdvisorIdle /\ RateIdle /\ ImportIdle /\ ParsingIdle

SpecStore == InitStore /\ [][StoreNext]_vars

\* The live exchange rate, its cache and its two callers.
InitRate == RateInit /\ AdvisorIdle /\ ImportIdle /\ ParsingIdle

SpecRate == InitRate /\ [][RateNext]_vars

\* The import wizard over the importer and the document store, up to its
\* first import.
InitImport == ImportInit /\ AdvisorIdle /\ RateIdle /\ ParsingIdle

SpecImport == InitImport /\ [][ImportNext]_vars

\* Transactions entered by hand and imported from a statement.
InitEntry == ImportInit /\ AdvisorIdle /\ RateIdle /\ ParsingIdle

SpecEntry == InitEntry /\ [][EntryNext]_vars

\* The savings advice for every breakdown of the pool.
InitAdvice == AdviceInit /\ StoreIdle /\ RateIdle /\ ImportIdle /\ ParsingIdle

SpecAdvice == InitAdvice /\ [][AdviceNext]_vars

\* The importer's functions, each applied to every input of its pool.
InitParse == ParsingIdle /\ AdvisorIdle /\ StoreIdle /\ RateIdle /\ ImportIdle

SpecParse == InitParse /\ [][ParseNext]_vars

\* The live exchange rate over any content of its cache item.
InitRateAnyCache == RateInitAnyCache /\ AdvisorIdle /\ ImportIdle /\ ParsingIdle

SpecRateAnyCache == InitRateAnyCache /\ [][RateNext]_vars

====
